---- MODULE Spec2Model ----
(***************************************************************************)
(* CatchUp: the pipeline orchestrator (PipelineRunner.run), the job and    *)
(* artifact store it writes to (Database) and the process-wide output      *)
(* stream it redirects (sys.stdout / TeeLogger).                           *)
(*                                                                         *)
(* Runs are asyncio tasks of one event loop: the code between two awaits   *)
(* of a run is atomic, and runs interleave at the awaits.  Each action of  *)
(* a run below is one such segment: the completion of the awaited store    *)
(* transaction or client call, followed by the synchronous code up to the  *)
(* point where the next awaited operation has been issued.                 *)
(*                                                                         *)
(* Spec is the job and artifact store under interleaved runs.  SpecStore   *)
(* is the lectures table under concurrent get_or_create_lecture and        *)
(* create_lecture calls, each suspended at the awaits of its SELECT and    *)
(* of its INSERT.                                                          *)
(***************************************************************************)
EXTENDS Integers, Sequences, FiniteSets, TLC

\* The submit-job requests the process receives, each by the lecture it is for:
\* two requests for one lecture and one for another.  Request j gives job j; jobs
\* are numbered in the order their runs start.
Requests == <<"lec1", "lec1", "lec2">>

Jobs == DOMAIN Requests

Lectures == {Requests[j] : j \in Jobs}

\* Bound of the model: at most this many runs are in flight at the same time.
MaxRunning == 2

\* Messages a stage client's exception may carry (str(e)); "" is str(Exception()).
Msgs == {"", "Download failed!"}

\* core/models.py JobStatus, in declaration order.
JobStatus ==
    <<"queued", "downloading", "converting", "vad", "transcribing",
      "summarizing", "done", "error">>

\* core/models.py ArtifactType.
ArtifactType ==
    {"metadata_json", "audio_original_wav", "audio_vad_wav", "raw_transcript_txt",
     "transcript_chunks_json", "summary_md", "summary_json", "log"}

\* The five stage clients of PipelineRunner, by the operation the runner calls.
Stages == <<"download", "convert_to_wav", "process", "transcribe", "summarize">>

StageSet == {Stages[i] : i \in 1..Len(Stages)}

\* SQL NULL / Python None in a text column.
Null == "<null>"

\* progress=None, the default of update_job_status's parameter.
NoProgress == -1

\* The stream that is sys.stdout before any run has redirected it.  Stream j
\* in Jobs is the TeeLogger that run j constructed.
RealStdout == 0

VARIABLES
    pc,              \* pc[j]: where run j is suspended (or "absent", "created", "returned", "raised")
    jobs,            \* the jobs table: job_id -> row
    artifacts,       \* the artifacts table: a set of rows
    files,           \* files on disk: a set of paths
    sys_stdout,      \* the process-wide sys.stdout
    original_stdout, \* original_stdout[j]: run j's local variable (runner.py:88)
    tee_stdout,      \* tee_stdout[j]: TeeLogger(j).stdout (runner.py:31)
    log_file,        \* log_file[j]: "none", "open" or "closed"
    exc,             \* exc[j]: the exception in flight in run j, or delivered to its caller
    invoked,         \* invoked[j]: the stage-client operations run j has called, in order,
                     \* and the external tools started for request j
    outcome,         \* outcome[j][s]: how run j's call of s ended (Pending, Returned, Raised(m))
    lectures,        \* the lectures table: a set of rows
    calls,           \* calls[c]: the store call request c is making on the lectures table
    plan,            \* a call of VoxtralTranscriber.transcribe and _calculate_chunk_plan
    policy,          \* a call of SileroVadProcessor._apply_policy and _concatenate_segments
    parse            \* a call of a function of core/parsing.py, or of a client's constructor

\* The runs in flight: started, and neither returned nor raised to the caller.
Running == {j \in Jobs : pc[j] \notin {"absent", "created", "returned", "raised"}}

\* The variables of the lecture store and of the requests that call it.
storeVars == <<lectures, calls>>

\* The variables of the runs and of the job and artifact tables.
runVars ==
    <<pc, jobs, artifacts, files, sys_stdout, original_stdout, tee_stdout,
      log_file, exc, invoked, outcome>>

\* The variables of the calls of the pure functions.
funVars == <<plan, policy, parse>>

vars == <<runVars, storeVars, funVars>>

-----------------------------------------------------------------------------
\* Exceptions.

NoExc == [type |-> "none", stage |-> "none", msg |-> Null]

\* What a stage client raises (DownloadError, ConversionError, ...): its str() is msg.
StageError(s, m) == [type |-> "StageError", stage |-> s, msg |-> m]

\* ValueError("I/O operation on closed file.") raised by TextIO.write on a closed file.
ClosedFileError ==
    [type |-> "ValueError", stage |-> "print", msg |-> "I/O operation on closed file."]

\* How a call of a stage client's operation has ended, as its caller sees it.
Pending == [result |-> "none", msg |-> Null]

Returned == [result |-> "ok", msg |-> Null]

Raised(m) == [result |-> "raised", msg |-> m]

-----------------------------------------------------------------------------
\* The store (db/database.py).

\* A row of the jobs table as create_job inserts it for Job(status=QUEUED, progress=0.0,
\* started_at=utcnow()).  progress is kept in tenths (0.1 is 1, 1.0 is 10).
NewJobRow(l) ==
    [lecture_id |-> l, status |-> "queued", progress |-> 0,
     error_message |-> Null, started_at |-> "set", finished_at |-> Null]

\* Mutant of UpdateJobStatus: the progress argument is dropped from the UPDATE.
UpdateJobStatusMutant(row, status, progress, error_message) ==
    [row EXCEPT
        !.status = status,
        !.error_message = IF error_message # Null THEN error_message ELSE @,
        !.finished_at = IF status \in {"done", "error"} THEN "set" ELSE @]

\* Mutant of UpdateJobStatus: finished_at is written for DONE only, so a failed job
\* keeps finished_at NULL.
UpdateJobStatusDoneOnlyMutant(row, status, progress, error_message) ==
    [row EXCEPT
        !.status = status,
        !.progress = IF progress # NoProgress THEN progress ELSE @,
        !.error_message = IF error_message # Null THEN error_message ELSE @,
        !.finished_at = IF status = "done" THEN "set" ELSE @]

\* Mutant of UpdateJobStatus: an update without a progress value writes progress 0.
UpdateJobStatusResetMutant(row, status, progress, error_message) ==
    [row EXCEPT
        !.status = status,
        !.progress = IF progress # NoProgress THEN progress ELSE 0,
        !.error_message = IF error_message # Null THEN error_message ELSE @,
        !.finished_at = IF status \in {"done", "error"} THEN "set" ELSE @]

\* update_job_status: one UPDATE statement; progress and error_message are written
\* only when given (not None), finished_at when the status is DONE or ERROR.
UpdateJobStatus(row, status, progress, error_message) ==
    [row EXCEPT
        !.status = status,
        !.progress = IF progress # NoProgress THEN progress ELSE @,
        !.error_message = IF error_message # Null THEN error_message ELSE @,
        !.finished_at = IF status \in {"done", "error"} THEN "set" ELSE @]

\* The store after update_job_status(job_id, ...): UPDATE ... WHERE job_id = ?.
JobsAfterUpdate(j, status, progress, error_message) ==
    [k \in DOMAIN jobs |->
        IF k = j THEN UpdateJobStatus(jobs[k], status, progress, error_message)
        ELSE jobs[k]]

\* uuid.uuid4() of the n-th Artifact that run j builds: fresh for every call.
ArtifactId(j) == <<j, Cardinality({a \in artifacts : a.artifact_id[1] = j}) + 1>>

\* get_lecture_dir: settings.data_dir / course_code / lecture_date / short uid.
LectureDir(l) == "data/" \o l

\* The Artifact run j registers for a file `name` of its lecture directory.
NewArtifact(j, type, name) ==
    [artifact_id |-> ArtifactId(j),
     lecture_id |-> jobs[j].lecture_id,
     type |-> type,
     path |-> LectureDir(jobs[j].lecture_id) \o "/" \o name]

\* Mutant of CreateArtifact: INSERT OR REPLACE keyed by (lecture_id, type), so a
\* lecture keeps one row per type and a later run overwrites the earlier row.
CreateArtifactReplaceMutant(rows, a) ==
    {r \in rows : ~(r.lecture_id = a.lecture_id /\ r.type = a.type)} \cup {a}

\* Mutant of CreateArtifact: INSERT OR IGNORE keyed by (lecture_id, type), so a
\* later run's row for a type the lecture already has is dropped.
CreateArtifactIgnoreMutant(rows, a) ==
    IF \E r \in rows : r.lecture_id = a.lecture_id /\ r.type = a.type
    THEN rows
    ELSE rows \cup {a}

\* create_artifact: INSERT of one row.
CreateArtifact(rows, a) == rows \cup {a}

\* get_artifacts_for_lecture.
ArtifactsForLecture(l) == {a \in artifacts : a.lecture_id = l}

-----------------------------------------------------------------------------
\* Lecture identity (core/parsing.py, api/main.py) and the lectures table.

\* The default `length` of generate_source_uid_short.
ShortUidLength == 8

\* Bound of the model: the number of requests that call the lecture store.
NumRequests == 3

Requesters == 1..NumRequests

\* A source_uid, as its sequence of characters: ShortUidLength times `first`, then
\* `last`.
SourceUid(first, last) ==
    [i \in 1..(ShortUidLength + 1) |-> IF i <= ShortUidLength THEN first ELSE last]

\* The string of a sequence of characters.
RECURSIVE Text(_)
Text(chars) == IF chars = << >> THEN "" ELSE Head(chars) \o Text(Tail(chars))

\* generate_source_uid_short: source_uid[:length].
GenerateSourceUidShort(source_uid, length) ==
    SubSeq(source_uid, 1, IF length < Len(source_uid) THEN length ELSE Len(source_uid))

\* generate_lecture_id: f"{course_code}_{lecture_date}_{source_uid_short}".
GenerateLectureId(course_code, lecture_date, source_uid_short) ==
    course_code \o "_" \o lecture_date \o "_" \o Text(source_uid_short)

\* The Lecture that POST /jobs builds from the metadata of a URL.
Lecture(course_code, lecture_date, title, source_uid) ==
    [lecture_id |->
         GenerateLectureId(course_code, lecture_date,
                           GenerateSourceUidShort(source_uid, ShortUidLength)),
     course_code |-> course_code,
     lecture_date |-> lecture_date,
     title |-> title,
     source_uid |-> source_uid]

\* The lectures the requests submit: one source under two titles and dates, a
\* second source with the same first ShortUidLength characters, and a third source
\* that shares nothing with them.
LectureInputs ==
    {Lecture("ELE130", "2026-02-08", "ELE130 Forelesning 2026-02-08", SourceUid("a", "1")),
     Lecture("ELE130", "unknown", "ELE130 Forelesning", SourceUid("a", "1")),
     Lecture("ELE130", "2026-02-08", "ELE130 Forelesning 2026-02-08", SourceUid("a", "2")),
     Lecture("ELE130", "2026-02-08", "ELE130 Forelesning 2026-02-08", SourceUid("b", "1"))}

\* No Lecture (None).
NoLecture ==
    [lecture_id |-> Null, course_code |-> Null, lecture_date |-> Null,
     title |-> Null, source_uid |-> << >>]

\* Mutant of GetLectureByUid: the lookup is made with the short form of the uid,
\* which no stored source_uid equals.
GetLectureByUidMutant(rows, source_uid) ==
    {r \in rows : r.source_uid = GenerateSourceUidShort(source_uid, ShortUidLength)}

\* get_lecture_by_uid: SELECT * FROM lectures WHERE source_uid = ?; the rows found.

GetLectureByUid(rows, source_uid) == {r \in rows : r.source_uid = source_uid}

\* Mutant of ViolatesConstraint: the lectures table declares source_uid without
\* UNIQUE, so only the primary key is enforced.
ViolatesConstraintMutant(rows, lecture) ==
    \E r \in rows : r.lecture_id = lecture.lecture_id

\* The INSERT of create_lecture fails with sqlite3.IntegrityError: lecture_id is the
\* PRIMARY KEY and source_uid is UNIQUE NOT NULL.
ViolatesConstraint(rows, lecture) ==
    \E r \in rows :
        \/ r.lecture_id = lecture.lecture_id
        \/ r.source_uid = lecture.source_uid

\* A request that has not called the store.
IdleCall ==
    [op |-> "none", lecture |-> NoLecture, pc |-> "idle", result |-> NoLecture,
     created |-> FALSE, error |-> Null, ended_before |-> {}]

-----------------------------------------------------------------------------
\* Output routing (TeeLogger, sys.stdout).

\* logs_dir / f"pipeline_{job_id}.log", relative to the lecture directory.
LogName(j) == "logs/pipeline_" \o ToString(j) \o ".log"

\* stream.write(message) returns instead of raising: the real stream accepts every
\* message; TeeLogger.write writes to self.stdout and then to self.file, which
\* raises ValueError when the file has been closed.
RECURSIVE WriteOk(_, _, _)
WriteOk(stream, tee, logf) ==
    IF stream = RealStdout THEN TRUE
    ELSE WriteOk(tee[stream], tee, logf) /\ logf[stream] = "open"

\* A print(...) of the try body returns instead of raising, when sys.stdout is
\* `stream`.
TryPrintOk(stream, tee, logf) == WriteOk(stream, tee, logf)

\* Mutant of HandlerPrintOk: the handler reports through a stream that never
\* raises, so the ERROR update is reached after every exception of the try body.
HandlerPrintOkMutant(stream, tee, logf) == TRUE

\* A print(...) of the except block (runner.py:206-210) returns instead of raising.
HandlerPrintOk(stream, tee, logf) == WriteOk(stream, tee, logf)

\* The prints of the try body succeed in the current state.
PrintOk == TryPrintOk(sys_stdout, tee_stdout, log_file)

\* Where a message written to `stream` arrives: RealStdout, and the log files (by
\* their run) of the TeeLoggers the write passes through.  TeeLogger.write writes to
\* self.stdout before self.file, so its file gets the message only when the inner
\* write has returned and the file is open.
RECURSIVE Sinks(_, _, _)
Sinks(stream, tee, logf) ==
    IF stream = RealStdout THEN {RealStdout}
    ELSE IF WriteOk(tee[stream], tee, logf) /\ logf[stream] = "open"
         THEN Sinks(tee[stream], tee, logf) \cup {stream}
         ELSE Sinks(tee[stream], tee, logf)

-----------------------------------------------------------------------------
\* No call of the function has been made.
NoCall == [pc |-> "idle"]

\* The service after start-up: empty tables, no run, sys.stdout untouched.
InitService ==
    /\ pc = [j \in Jobs |-> "absent"]
    /\ jobs = << >>
    /\ artifacts = {}
    /\ files = {}
    /\ sys_stdout = RealStdout
    /\ original_stdout = [j \in Jobs |-> RealStdout]
    /\ tee_stdout = [j \in Jobs |-> RealStdout]
    /\ log_file = [j \in Jobs |-> "none"]
    /\ exc = [j \in Jobs |-> NoExc]
    /\ invoked = [j \in Jobs |-> << >>]
    /\ outcome = [j \in Jobs |-> [s \in StageSet |-> Pending]]
    /\ lectures = {}
    /\ calls = [c \in Requesters |-> IdleCall]

Init ==
    /\ InitService
    /\ plan = NoCall
    /\ policy = NoCall
    /\ parse = NoCall

\* POST /jobs: db.create_job(Job(status=QUEUED, progress=0.0)), after which the
\* run is scheduled with asyncio.create_task.
CreateJob(j) ==
    /\ pc[j] = "absent"
    /\ jobs' = jobs @@ (j :> NewJobRow(Requests[j]))
    /\ pc' = [pc EXCEPT ![j] = "created"]
    /\ UNCHANGED <<storeVars, funVars>>
    /\ UNCHANGED <<artifacts, files, sys_stdout, original_stdout, tee_stdout,
                   log_file, exc, invoked, outcome>>

-----------------------------------------------------------------------------
\* Control flow shared by the segments of run (runner.py:90-229).

\* The await point of the update_job_status call that precedes a stage client's
\* operation, or that writes "done" or "error".
AwaitUpdate(before) == "update_" \o before

\* The await point of create_artifact for a type.
AwaitArtifact(type) == "create_artifact_" \o type

\* The await point inside a stage client's operation.
InClient(stage) == "in_" \o stage

\* The run suspends at its next await; nothing else of its frame changes.
Proceed(j, next) ==
    /\ pc' = [pc EXCEPT ![j] = next]
    /\ UNCHANGED <<exc, sys_stdout, original_stdout, tee_stdout, log_file>>

\* finally (runner.py:218-229), up to the await of create_artifact(LOG): restore
\* sys.stdout to the run's original_stdout, close the log file; e is the exception
\* that is propagating (NoExc on the normal path).
Finally(j, e) ==
    /\ sys_stdout' = original_stdout[j]
    /\ log_file' = [log_file EXCEPT ![j] = "closed"]
    /\ exc' = [exc EXCEPT ![j] = e]
    /\ pc' = [pc EXCEPT ![j] = AwaitArtifact("log")]
    /\ UNCHANGED <<original_stdout, tee_stdout>>

\* except Exception as e (runner.py:203-211), up to the await of
\* update_job_status(ERROR): the handler prints first; a print that raises inside
\* the handler replaces e, skips the update and goes to finally.
Except(j, e) ==
    IF HandlerPrintOk(sys_stdout, tee_stdout, log_file)
    THEN /\ pc' = [pc EXCEPT ![j] = AwaitUpdate("error")]
         /\ exc' = [exc EXCEPT ![j] = e]
         /\ UNCHANGED <<sys_stdout, original_stdout, tee_stdout, log_file>>
    ELSE Finally(j, ClosedFileError)

\* The prints between two awaits of the try body, then suspend at `next`; a print
\* that raises enters the except block.
Continue(j, next) ==
    IF PrintOk THEN Proceed(j, next) ELSE Except(j, ClosedFileError)

\* Files of run j's lecture directory.
InDir(j, names) == {LectureDir(jobs[j].lecture_id) \o "/" \o n : n \in names}

\* Mutant of StageStatus: the VAD step writes the status of the step after it.
StageStatusMutant(stage) ==
    CASE stage = "download" -> "downloading"
      [] stage = "convert_to_wav" -> "converting"
      [] stage = "process" -> "transcribing"
      [] stage = "transcribe" -> "transcribing"
      [] stage = "summarize" -> "summarizing"

\* The status and progress written before the client operation `stage` is called
\* (runner.py:111, 118, 134, 150, 178).
StageStatus(stage) ==
    CASE stage = "download" -> "downloading"
      [] stage = "convert_to_wav" -> "converting"
      [] stage = "process" -> "vad"
      [] stage = "transcribe" -> "transcribing"
      [] stage = "summarize" -> "summarizing"

StageProgress(stage) ==
    CASE stage = "download" -> 1
      [] stage = "convert_to_wav" -> 2
      [] stage = "process" -> 3
      [] stage = "transcribe" -> 4
      [] stage = "summarize" -> 7

\* Mutant of UpdateThenInvoke: update_job_status is called without await, so the
\* coroutine never runs and the client is called with the status not written.
UpdateThenInvokeMutant(j, stage) ==
    /\ pc[j] = AwaitUpdate(stage)
    /\ invoked' = [invoked EXCEPT ![j] = Append(@, stage)]
    /\ pc' = [pc EXCEPT ![j] = InClient(stage)]
    /\ UNCHANGED <<storeVars, funVars>>
    /\ UNCHANGED <<jobs, artifacts, files, sys_stdout, original_stdout, tee_stdout,
                   log_file, exc, outcome>>

\* `await db.update_job_status(job_id, <status>, progress=<p>)` commits, and the run
\* calls the stage client: it is now suspended inside the client's operation.
UpdateThenInvoke(j, stage) ==
    /\ pc[j] = AwaitUpdate(stage)
    /\ jobs' = JobsAfterUpdate(j, StageStatus(stage), StageProgress(stage), Null)
    /\ invoked' = [invoked EXCEPT ![j] = Append(@, stage)]
    /\ pc' = [pc EXCEPT ![j] = InClient(stage)]
    /\ UNCHANGED <<storeVars, funVars>>
    /\ UNCHANGED <<artifacts, files, sys_stdout, original_stdout, tee_stdout,
                   log_file, exc, outcome>>

\* The stage client's operation returns: the client has written `clientFiles`; the
\* run prints, writes `runnerFiles` itself and suspends at `next`.
ClientReturns(j, stage, clientFiles, runnerFiles, next) ==
    /\ pc[j] = InClient(stage)
    /\ outcome' = [outcome EXCEPT ![j][stage] = Returned]
    /\ files' = files \cup InDir(j, clientFiles)
                      \cup (IF PrintOk THEN InDir(j, runnerFiles) ELSE {})
    /\ Continue(j, next)
    /\ UNCHANGED <<storeVars, funVars>>
    /\ UNCHANGED <<jobs, artifacts, invoked>>

\* Mutant of ClientRaises: the failed stage is retried, the run going back to the
\* status update that precedes the call.
ClientRaisesMutant(j, stage, m) ==
    /\ pc[j] = InClient(stage)
    /\ outcome' = [outcome EXCEPT ![j][stage] = Raised(m)]
    /\ pc' = [pc EXCEPT ![j] = AwaitUpdate(stage)]
    /\ UNCHANGED <<storeVars, funVars>>
    /\ UNCHANGED <<jobs, artifacts, files, invoked, exc, sys_stdout,
                   original_stdout, tee_stdout, log_file>>

\* The stage client's operation raises an exception whose str() is m.
ClientRaises(j, stage, m) ==
    /\ pc[j] = InClient(stage)
    /\ outcome' = [outcome EXCEPT ![j][stage] = Raised(m)]
    /\ Except(j, StageError(stage, m))
    /\ UNCHANGED <<storeVars, funVars>>
    /\ UNCHANGED <<jobs, artifacts, files, invoked>>

\* `await db.create_artifact(Artifact(type=<type>, path=<name>))` commits; the run
\* goes on to `next`, printing on the way when the code prints there.
Register(j, type, name, prints, next) ==
    /\ pc[j] = AwaitArtifact(type)
    /\ artifacts' = CreateArtifact(artifacts, NewArtifact(j, type, name))
    /\ IF prints THEN Continue(j, next) ELSE Proceed(j, next)
    /\ UNCHANGED <<storeVars, funVars>>
    /\ UNCHANGED <<jobs, files, invoked, outcome>>

-----------------------------------------------------------------------------
\* The segments of PipelineRunner.run, in source order.

\* Mutant of StartRun: source_url.txt is not written.
StartRunMutant(j) ==
    LET old == sys_stdout
        tee1 == [tee_stdout EXCEPT ![j] = old]
        log1 == [log_file EXCEPT ![j] = "open"]
        logPath == InDir(j, {LogName(j)})
    IN  /\ pc[j] = "created"
        /\ Cardinality(Running) < MaxRunning
        /\ \A i \in 1..(j - 1) : pc[i] \notin {"absent", "created"}
        /\ original_stdout' = [original_stdout EXCEPT ![j] = old]
        /\ tee_stdout' = tee1
        /\ IF TryPrintOk(j, tee1, log1)
           THEN /\ sys_stdout' = j
                /\ log_file' = log1
                /\ files' = files \cup logPath
                /\ pc' = [pc EXCEPT ![j] = AwaitUpdate("download")]
                /\ UNCHANGED exc
           ELSE IF HandlerPrintOk(j, tee1, log1)
           THEN /\ sys_stdout' = j
                /\ log_file' = log1
                /\ files' = files \cup logPath
                /\ pc' = [pc EXCEPT ![j] = AwaitUpdate("error")]
                /\ exc' = [exc EXCEPT ![j] = ClosedFileError]
           ELSE /\ sys_stdout' = old
                /\ log_file' = [log_file EXCEPT ![j] = "closed"]
                /\ files' = files \cup logPath
                /\ pc' = [pc EXCEPT ![j] = AwaitArtifact("log")]
                /\ exc' = [exc EXCEPT ![j] = ClosedFileError]
        /\ UNCHANGED <<storeVars, funVars>>
        /\ UNCHANGED <<jobs, artifacts, invoked, outcome>>

\* runner.py:72-111.  Create the directories, open the log file, redirect
\* sys.stdout to a new TeeLogger, print the banner, write source_url.txt, print
\* the step header and await update_job_status(DOWNLOADING).  A print that raises
\* (sys.stdout already routed through a closed log file) enters the handler, whose
\* print raises as well, and finally restores and closes.
\* The two guards after pc[j] = "created" are the model's: MaxRunning caps the runs
\* in flight, and job ids follow the order in which the runs start.
StartRun(j) ==
    LET old == sys_stdout
        tee1 == [tee_stdout EXCEPT ![j] = old]
        log1 == [log_file EXCEPT ![j] = "open"]
        logPath == InDir(j, {LogName(j)})
    IN  /\ pc[j] = "created"
        /\ Cardinality(Running) < MaxRunning
        /\ \A i \in 1..(j - 1) : pc[i] \notin {"absent", "created"}
        /\ original_stdout' = [original_stdout EXCEPT ![j] = old]
        /\ tee_stdout' = tee1
        /\ IF TryPrintOk(j, tee1, log1)
           THEN /\ sys_stdout' = j
                /\ log_file' = log1
                /\ files' = files \cup logPath \cup InDir(j, {"source_url.txt"})
                /\ pc' = [pc EXCEPT ![j] = AwaitUpdate("download")]
                /\ UNCHANGED exc
           ELSE IF HandlerPrintOk(j, tee1, log1)
           THEN /\ sys_stdout' = j
                /\ log_file' = log1
                /\ files' = files \cup logPath
                /\ pc' = [pc EXCEPT ![j] = AwaitUpdate("error")]
                /\ exc' = [exc EXCEPT ![j] = ClosedFileError]
           ELSE /\ sys_stdout' = old
                /\ log_file' = [log_file EXCEPT ![j] = "closed"]
                /\ files' = files \cup logPath
                /\ pc' = [pc EXCEPT ![j] = AwaitArtifact("log")]
                /\ exc' = [exc EXCEPT ![j] = ClosedFileError]
        /\ UNCHANGED <<storeVars, funVars>>
        /\ UNCHANGED <<jobs, artifacts, invoked, outcome>>

\* runner.py:111-112.
UpdateDownloading(j) == UpdateThenInvoke(j, "download")

\* runner.py:112-118.
DownloadReturns(j) ==
    ClientReturns(j, "download", {"downloaded.wav"}, {}, AwaitUpdate("convert_to_wav"))

DownloadRaises(j, m) == ClientRaises(j, "download", m)

\* runner.py:118-120.
UpdateConverting(j) == UpdateThenInvoke(j, "convert_to_wav")

\* runner.py:120-124.
ConvertReturns(j) ==
    ClientReturns(j, "convert_to_wav", {"audio_original.wav"}, {},
                  AwaitArtifact("audio_original_wav"))

ConvertRaises(j, m) == ClientRaises(j, "convert_to_wav", m)

\* runner.py:124-134.
RegisterAudioOriginal(j) ==
    Register(j, "audio_original_wav", "audio_original.wav", TRUE, AwaitUpdate("process"))

\* runner.py:134-136.
UpdateVad(j) == UpdateThenInvoke(j, "process")

\* runner.py:136-140.
ProcessReturns(j) ==
    ClientReturns(j, "process", {"audio_vad.wav"}, {}, AwaitArtifact("audio_vad_wav"))

\* Mutant of ProcessRaises: the VAD artifact is registered although the stage failed.
ProcessRaisesMutant(j, m) ==
    /\ pc[j] = InClient("process")
    /\ outcome' = [outcome EXCEPT ![j]["process"] = Raised(m)]
    /\ artifacts' = CreateArtifact(artifacts, NewArtifact(j, "audio_vad_wav", "audio_vad.wav"))
    /\ Except(j, StageError("process", m))
    /\ UNCHANGED <<storeVars, funVars>>
    /\ UNCHANGED <<jobs, files, invoked>>

ProcessRaises(j, m) == ClientRaises(j, "process", m)

\* Mutant of RegisterAudioVad: the create_artifact coroutine is built but not
\* awaited, so the run goes on to TRANSCRIBING with no row inserted.
RegisterAudioVadMutant(j) ==
    /\ pc[j] = AwaitArtifact("audio_vad_wav")
    /\ Continue(j, AwaitUpdate("transcribe"))
    /\ UNCHANGED <<storeVars, funVars>>
    /\ UNCHANGED <<jobs, artifacts, files, invoked, outcome>>

\* runner.py:140-150.
RegisterAudioVad(j) ==
    Register(j, "audio_vad_wav", "audio_vad.wav", TRUE, AwaitUpdate("transcribe"))

\* runner.py:150-151.
UpdateTranscribing(j) == UpdateThenInvoke(j, "transcribe")

\* runner.py:151-162.
TranscribeReturns(j) ==
    ClientReturns(j, "transcribe", {},
                  {"transcript/raw_transcript.txt", "transcript/transcript_chunks.json"},
                  AwaitArtifact("raw_transcript_txt"))

TranscribeRaises(j, m) == ClientRaises(j, "transcribe", m)

\* runner.py:162-168.
RegisterRawTranscript(j) ==
    Register(j, "raw_transcript_txt", "transcript/raw_transcript.txt", FALSE,
             AwaitArtifact("transcript_chunks_json"))

\* runner.py:168-178.
RegisterTranscriptChunks(j) ==
    Register(j, "transcript_chunks_json", "transcript/transcript_chunks.json", TRUE,
             AwaitUpdate("summarize"))

\* runner.py:178-179.
UpdateSummarizing(j) == UpdateThenInvoke(j, "summarize")

\* runner.py:179-188.
SummarizeReturns(j) ==
    ClientReturns(j, "summarize", {}, {"summary/summary.md"}, AwaitArtifact("summary_md"))

SummarizeRaises(j, m) == ClientRaises(j, "summarize", m)

\* Mutant of RegisterSummary: summary.md is written but no Artifact is registered
\* for it.
RegisterSummaryMutant(j) ==
    /\ pc[j] = AwaitArtifact("summary_md")
    /\ Proceed(j, AwaitUpdate("done"))
    /\ UNCHANGED <<storeVars, funVars>>
    /\ UNCHANGED <<jobs, artifacts, files, invoked, outcome>>

\* runner.py:188-196.
RegisterSummary(j) ==
    Register(j, "summary_md", "summary/summary.md", FALSE, AwaitUpdate("done"))

\* runner.py:196-201, then 218-224.  update_job_status(DONE, progress=1.0) commits;
\* the run prints the completion banner, still inside the try body, and falls
\* through to finally.
UpdateDone(j) ==
    /\ pc[j] = AwaitUpdate("done")
    /\ jobs' = JobsAfterUpdate(j, "done", 10, Null)
    /\ IF PrintOk THEN Finally(j, NoExc) ELSE Except(j, ClosedFileError)
    /\ UNCHANGED <<storeVars, funVars>>
    /\ UNCHANGED <<artifacts, files, invoked, outcome>>

\* runner.py:211-216, then 218-224.  update_job_status(ERROR, error_message=str(e))
\* commits; `raise` re-raises e, and finally runs with e propagating.
UpdateError(j) ==
    /\ pc[j] = AwaitUpdate("error")
    /\ jobs' = JobsAfterUpdate(j, "error", NoProgress, exc[j].msg)
    /\ Finally(j, exc[j])
    /\ UNCHANGED <<storeVars, funVars>>
    /\ UNCHANGED <<artifacts, files, invoked, outcome>>

\* Mutant of RegisterLog: the log is registered at the end of the try body instead
\* of in finally, so only a run without an exception registers it.
RegisterLogMutant(j) ==
    /\ pc[j] = AwaitArtifact("log")
    /\ artifacts' = IF exc[j] = NoExc
                    THEN CreateArtifact(artifacts, NewArtifact(j, "log", LogName(j)))
                    ELSE artifacts
    /\ pc' = [pc EXCEPT ![j] = IF exc[j] = NoExc THEN "returned" ELSE "raised"]
    /\ UNCHANGED <<storeVars, funVars>>
    /\ UNCHANGED <<jobs, files, sys_stdout, original_stdout, tee_stdout, log_file,
                   exc, invoked, outcome>>

\* runner.py:224-229.  create_artifact(LOG) commits; run returns, or the exception
\* that was propagating reaches the caller.
RegisterLog(j) ==
    /\ pc[j] = AwaitArtifact("log")
    /\ artifacts' = CreateArtifact(artifacts, NewArtifact(j, "log", LogName(j)))
    /\ pc' = [pc EXCEPT ![j] = IF exc[j] = NoExc THEN "returned" ELSE "raised"]
    /\ UNCHANGED <<storeVars, funVars>>
    /\ UNCHANGED <<jobs, files, sys_stdout, original_stdout, tee_stdout, log_file,
                   exc, invoked, outcome>>

Run(j) ==
    \/ StartRun(j)
    \/ UpdateDownloading(j)
    \/ DownloadReturns(j)
    \/ \E m \in Msgs : DownloadRaises(j, m)
    \/ UpdateConverting(j)
    \/ ConvertReturns(j)
    \/ \E m \in Msgs : ConvertRaises(j, m)
    \/ RegisterAudioOriginal(j)
    \/ UpdateVad(j)
    \/ ProcessReturns(j)
    \/ \E m \in Msgs : ProcessRaises(j, m)
    \/ RegisterAudioVad(j)
    \/ UpdateTranscribing(j)
    \/ TranscribeReturns(j)
    \/ \E m \in Msgs : TranscribeRaises(j, m)
    \/ RegisterRawTranscript(j)
    \/ RegisterTranscriptChunks(j)
    \/ UpdateSummarizing(j)
    \/ SummarizeReturns(j)
    \/ \E m \in Msgs : SummarizeRaises(j, m)
    \/ RegisterSummary(j)
    \/ UpdateDone(j)
    \/ UpdateError(j)
    \/ RegisterLog(j)

Next ==
    \/ \E j \in Jobs : CreateJob(j)
    \/ \E j \in Jobs : Run(j)

Spec == Init /\ [][Next]_vars

-----------------------------------------------------------------------------
\* The lecture store under concurrent requests.  A request's call is a coroutine of
\* the event loop: it suspends at the awaits of its SELECT and of its INSERT, and
\* other requests' calls run in between.

\* The calls that had ended when a call starts.
EndedCalls == {d \in Requesters : calls[d].pc \in {"returned", "raised"}}

\* A request starts a call of `op` with `lecture`, suspending at `at`.  Requests are
\* numbered in the order in which they call.
StartCall(c, op, lecture, at) ==
    /\ calls[c].pc = "idle"
    /\ \A d \in 1..(c - 1) : calls[d].pc # "idle"
    /\ calls' = [calls EXCEPT ![c] =
                    [IdleCall EXCEPT !.op = op, !.lecture = lecture, !.pc = at,
                                     !.ended_before = EndedCalls]]
    /\ UNCHANGED lectures
    /\ UNCHANGED <<runVars, funVars>>

\* POST /jobs calls db.get_or_create_lecture(lecture), which awaits
\* get_lecture_by_uid.
CallGetOrCreateLecture(c, lecture) ==
    StartCall(c, "get_or_create_lecture", lecture, "get_lecture_by_uid")

\* A caller of the store calls db.create_lecture(lecture) itself.
CallCreateLecture(c, lecture) ==
    StartCall(c, "create_lecture", lecture, "create_lecture")

\* get_lecture_by_uid returns: with a row, get_or_create_lecture returns
\* (existing, False); with None it awaits create_lecture(lecture).
GetLectureByUidReturns(c) ==
    LET existing == GetLectureByUid(lectures, calls[c].lecture.source_uid)
    IN  /\ calls[c].pc = "get_lecture_by_uid"
        /\ calls' = [calls EXCEPT ![c] =
                        IF existing # {}
                        THEN [@ EXCEPT !.pc = "returned",
                                       !.result = CHOOSE r \in existing : TRUE,
                                       !.created = FALSE]
                        ELSE [@ EXCEPT !.pc = "create_lecture"]]
        /\ UNCHANGED lectures
        /\ UNCHANGED <<runVars, funVars>>

\* create_lecture's INSERT commits and the call returns the lecture it was given;
\* get_or_create_lecture returns (created, True).
CreateLectureReturns(c) ==
    /\ calls[c].pc = "create_lecture"
    /\ ~ViolatesConstraint(lectures, calls[c].lecture)
    /\ lectures' = lectures \cup {calls[c].lecture}
    /\ calls' = [calls EXCEPT ![c] =
                    [@ EXCEPT !.pc = "returned",
                              !.result = calls[c].lecture,
                              !.created = (calls[c].op = "get_or_create_lecture")]]
    /\ UNCHANGED <<runVars, funVars>>

\* create_lecture's INSERT violates a constraint: IntegrityError propagates out of
\* create_lecture and get_or_create_lecture, neither of which catches it.
CreateLectureRaises(c) ==
    /\ calls[c].pc = "create_lecture"
    /\ ViolatesConstraint(lectures, calls[c].lecture)
    /\ calls' = [calls EXCEPT ![c] =
                    [@ EXCEPT !.pc = "raised", !.error = "IntegrityError"]]
    /\ UNCHANGED lectures
    /\ UNCHANGED <<runVars, funVars>>

NextStore ==
    \/ \E c \in Requesters : \E l \in LectureInputs : CallGetOrCreateLecture(c, l)
    \/ \E c \in Requesters : \E l \in LectureInputs : CallCreateLecture(c, l)
    \/ \E c \in Requesters : GetLectureByUidReturns(c)
    \/ \E c \in Requesters : CreateLectureReturns(c)
    \/ \E c \in Requesters : CreateLectureRaises(c)

SpecStore == Init /\ [][NextStore]_vars

-----------------------------------------------------------------------------
\* Vocabulary of the properties.

\* The run has ended: it returned, or an exception reached its caller.
Ended(j) == pc[j] \in {"returned", "raised"}

\* The artifact rows run j has registered, and their types.
RegisteredBy(j) == {a \in artifacts : a.artifact_id[1] = j}

TypesBy(j) == {a.type : a \in RegisteredBy(j)}

LogArtifactsBy(j) == {a \in RegisteredBy(j) : a.type = "log"}

StageArtifactTypes ==
    {"audio_original_wav", "audio_vad_wav", "raw_transcript_txt",
     "transcript_chunks_json", "summary_md"}

\* The order of the non-error statuses.
PipelineOrder ==
    <<"queued", "downloading", "converting", "vad", "transcribing", "summarizing", "done">>

Position(status) == CHOOSE i \in 1..Len(PipelineOrder) : PipelineOrder[i] = status

\* The fixed checkpoints, progress in tenths.
Checkpoint(status) ==
    CASE status = "queued" -> 0
      [] status = "downloading" -> 1
      [] status = "converting" -> 2
      [] status = "vad" -> 3
      [] status = "transcribing" -> 4
      [] status = "summarizing" -> 7
      [] status = "done" -> 10

\* The status that belongs to a stage client's operation.
StatusOfStage(stage) ==
    CASE stage = "download" -> "downloading"
      [] stage = "convert_to_wav" -> "converting"
      [] stage = "process" -> "vad"
      [] stage = "transcribe" -> "transcribing"
      [] stage = "summarize" -> "summarizing"

-----------------------------------------------------------------------------
\* C1: a job's row is created with status QUEUED, and every later change of its
\* stored status goes to the immediate successor in QUEUED, DOWNLOADING,
\* CONVERTING, VAD, TRANSCRIBING, SUMMARIZING, DONE or to ERROR: no status is
\* skipped and the status never moves backward.
C1_StatusOrder ==
    [][/\ \A j \in (DOMAIN jobs') \ (DOMAIN jobs) : jobs'[j].status = "queued"
       /\ \A j \in DOMAIN jobs :
            LET a == jobs[j].status
                b == jobs'[j].status
            IN  a # b =>
                    \/ b = "error"
                    \/ /\ a \notin {"done", "error"}
                       /\ b # "error"
                       /\ Position(b) = Position(a) + 1]_vars

\* C1 witness: a run has gone through every status and returned.
C1_Witness == \E j \in DOMAIN jobs : jobs[j].status = "done" /\ pc[j] = "returned"

\* C2: DONE and ERROR are terminal: once a job's stored status is DONE or ERROR its
\* row never changes again, whatever fails later inside run.
C2_TerminalStatus ==
    [][\A j \in DOMAIN jobs :
            jobs[j].status \in {"done", "error"} => jobs'[j] = jobs[j]]_vars

\* C2 witness: a run failed after its DONE update (an exception reached the caller)
\* and the job is still recorded as DONE.
C2_Witness == \E j \in DOMAIN jobs : jobs[j].status = "done" /\ pc[j] = "raised"

\* C3: in every reachable state the (status, progress) pair of a job whose status is
\* not ERROR is one of the fixed checkpoints: no state shows a status with the
\* progress of another.
C3_Checkpoints ==
    \A j \in DOMAIN jobs :
        jobs[j].status # "error" => jobs[j].progress = Checkpoint(jobs[j].status)

\* C3 witness: a job is stored as SUMMARIZING with progress 0.7.
C3_Witness ==
    \E j \in DOMAIN jobs : jobs[j].status = "summarizing" /\ jobs[j].progress = 7

\* C4: whenever a stage client's operation is executing for a job, the job's stored
\* status is that stage's status.
C4_StatusBeforeClient ==
    \A j \in Jobs : \A s \in StageSet :
        pc[j] = InClient(s) => jobs[j].status = StatusOfStage(s)

\* C4 witness: the last stage client is executing.
C4_Witness ==
    \E j \in Jobs : pc[j] = InClient("summarize") /\ jobs[j].status = "summarizing"

\* C5: the stage clients a run has called are a prefix of download, convert_to_wav,
\* process, transcribe, summarize, each called once; a stage was called only after
\* every earlier stage returned; after a stage raised, no client is called.
C5_NoRetryNoLaterStage ==
    \A j \in Jobs :
        /\ Len(invoked[j]) <= Len(Stages)
        /\ \A k \in 1..Len(invoked[j]) :
              /\ invoked[j][k] = Stages[k]
              /\ \A i \in 1..(k - 1) : outcome[j][Stages[i]] = Returned
        /\ \A k \in 1..Len(Stages) :
              outcome[j][Stages[k]].result = "raised" => Len(invoked[j]) = k

\* C5 witness: the third stage raised and the run has ended with three calls made.
C5_Witness ==
    \E j \in Jobs :
        /\ outcome[j]["process"].result = "raised"
        /\ pc[j] = "raised"
        /\ Len(invoked[j]) = 3

\* C6: when all five stage clients have returned, a run that has ended has returned
\* normally, the job is DONE with progress 1.0 and the run has registered artifacts
\* of the five stage types and the log.
C6_SuccessReachesDone ==
    \A j \in Jobs :
        (Ended(j) /\ \A s \in StageSet : outcome[j][s] = Returned) =>
            /\ pc[j] = "returned"
            /\ jobs[j].status = "done"
            /\ jobs[j].progress = 10
            /\ StageArtifactTypes \cup {"log"} \subseteq TypesBy(j)

\* C7 as claimed: in every state in which a job's stored status is DONE the run has
\* already registered artifacts of all six types, the log included.
C7_DoneHasSixArtifacts ==
    \A j \in DOMAIN jobs :
        jobs[j].status = "done" => StageArtifactTypes \cup {"log"} \subseteq TypesBy(j)

\* C7 amended: in every state in which a job's stored status is DONE the run has
\* registered, for the job's lecture, the five stage artifacts; the log artifact
\* is there once the run has ended.
C7_DoneHasStageArtifacts ==
    \A j \in DOMAIN jobs :
        jobs[j].status = "done" =>
            /\ StageArtifactTypes \subseteq TypesBy(j)
            /\ \A a \in RegisteredBy(j) : a.lecture_id = jobs[j].lecture_id
            /\ Ended(j) => "log" \in TypesBy(j)

\* C7 witness: DONE is stored and the run is still awaiting the log's registration.
C7_Witness ==
    \E j \in DOMAIN jobs :
        /\ jobs[j].status = "done"
        /\ pc[j] = AwaitArtifact("log")
        /\ "log" \notin TypesBy(j)

\* C8: when a stage client raised an exception with message m, the run ends with
\* that same exception reaching the caller, and the job is then ERROR with
\* error_message m and finished_at set.
C8_StageErrorRecordedAndReraised ==
    \A j \in Jobs : \A s \in StageSet :
        (Ended(j) /\ outcome[j][s].result = "raised") =>
            /\ pc[j] = "raised"
            /\ exc[j] = StageError(s, outcome[j][s].msg)
            /\ jobs[j].status = "error"
            /\ jobs[j].error_message = outcome[j][s].msg
            /\ jobs[j].finished_at # Null

\* C9: a run registers at most one LOG artifact, and exactly one by the time it has
\* ended, whether it returned or raised; the artifact is for the run's lecture and
\* its path is logs/pipeline_{job_id}.log in the lecture's directory.
C9_OneLogArtifact ==
    \A j \in Jobs :
        /\ Cardinality(LogArtifactsBy(j)) <= 1
        /\ Ended(j) => Cardinality(LogArtifactsBy(j)) = 1
        /\ \A a \in LogArtifactsBy(j) :
              /\ a.lecture_id = Requests[j]
              /\ a.path = "data/" \o Requests[j] \o "/logs/pipeline_" \o ToString(j) \o ".log"

\* C9 witness: the first stage raised and the run has ended with its log registered.
C9_Witness ==
    \E j \in Jobs :
        /\ outcome[j]["download"].result = "raised"
        /\ pc[j] = "raised"
        /\ Cardinality(LogArtifactsBy(j)) = 1

\* C10: after a stage client raised, the effects come in the order ERROR update, log
\* file closed, LOG artifact registered, exception delivered: the log file is closed
\* only with ERROR and the message stored, the LOG artifact is registered only with
\* the file closed, and the exception reaches the caller only with the LOG
\* artifact registered.
C10_RecordedBeforeSurfacing ==
    \A j \in Jobs : \A s \in StageSet :
        outcome[j][s].result = "raised" =>
            /\ log_file[j] = "closed" =>
                  /\ jobs[j].status = "error"
                  /\ jobs[j].error_message = outcome[j][s].msg
            /\ "log" \in TypesBy(j) => log_file[j] = "closed"
            /\ Ended(j) => (pc[j] = "raised" /\ "log" \in TypesBy(j))

-----------------------------------------------------------------------------
\* The artifact types that must be registered before a stage's status is written.
ArtifactsBefore(stage) ==
    CASE stage = "download" -> {}
      [] stage = "convert_to_wav" -> {}
      [] stage = "process" -> {"audio_original_wav"}
      [] stage = "transcribe" -> {"audio_vad_wav"}
      [] stage = "summarize" -> {"raw_transcript_txt", "transcript_chunks_json"}

\* Run j has called the stage's client.
HasInvoked(j, stage) == \E k \in 1..Len(invoked[j]) : invoked[j][k] = stage

\* C11: the status of stage N+1 is stored, and its client called, only with every
\* artifact of stage N registered: AUDIO_ORIGINAL_WAV before VAD, AUDIO_VAD_WAV
\* before TRANSCRIBING, RAW_TRANSCRIPT_TXT and TRANSCRIPT_CHUNKS_JSON before
\* SUMMARIZING, SUMMARY_MD before DONE.
C11_ArtifactsBeforeNextStage ==
    \A j \in DOMAIN jobs :
        /\ \A s \in StageSet :
              (jobs[j].status = StatusOfStage(s) \/ HasInvoked(j, s)) =>
                  ArtifactsBefore(s) \subseteq TypesBy(j)
        /\ jobs[j].status = "done" => "summary_md" \in TypesBy(j)

\* C11 witness: the summarizer is executing with both transcript artifacts, and
\* the two audio artifacts, registered.
C11_Witness ==
    \E j \in Jobs :
        /\ pc[j] = InClient("summarize")
        /\ {"audio_original_wav", "audio_vad_wav", "raw_transcript_txt",
            "transcript_chunks_json"} \subseteq TypesBy(j)

\* C12: a job's error_message is non-null only when its status is ERROR, and its
\* finished_at is non-null exactly when its status is DONE or ERROR.
C12_ErrorAndFinishFields ==
    \A j \in DOMAIN jobs :
        /\ jobs[j].error_message # Null => jobs[j].status = "error"
        /\ jobs[j].finished_at # Null <=> jobs[j].status \in {"done", "error"}

\* C12 witness: a job is stored as ERROR with the stage's message and finished_at.
C12_Witness ==
    \E j \in DOMAIN jobs :
        /\ jobs[j].status = "error"
        /\ jobs[j].error_message = "Download failed!"
        /\ jobs[j].finished_at # Null

\* C13: artifact rows are immutable and never removed: every step leaves each
\* existing row in the table as it was, and a step that changes the table adds one
\* row whose artifact_id no existing row has.
C13_ArtifactsInsertOnly ==
    [][artifacts' # artifacts =>
          \E a \in artifacts' :
              /\ artifacts' = artifacts \cup {a}
              /\ \A r \in artifacts : r.artifact_id # a.artifact_id]_vars

\* C13 witness: two runs have registered a row of the same type and path for the
\* same lecture, and both rows are in the table.
C13_Witness ==
    \E a, b \in artifacts :
        /\ a.artifact_id # b.artifact_id
        /\ a.lecture_id = b.lecture_id
        /\ a.type = b.type
        /\ a.path = b.path

\* The runs for lecture l that have returned normally, and those that have started.
SuccessfulRuns(l) == {j \in Jobs : Requests[j] = l /\ pc[j] = "returned"}

StartedRuns(l) == {j \in Jobs : Requests[j] = l /\ pc[j] \notin {"absent", "created"}}

\* The number of rows of a type the store holds for a lecture.
RowsOfType(l, t) == Cardinality({a \in artifacts : a.lecture_id = l /\ a.type = t})

\* A run that returned normally has registered exactly six rows for its lecture, one
\* of each of the five stage types and the log.
SixRowsPerSuccessfulRun ==
    \A j \in Jobs :
        pc[j] = "returned" =>
            /\ Cardinality(RegisteredBy(j)) = 6
            /\ TypesBy(j) = StageArtifactTypes \cup {"log"}
            /\ \A a \in RegisteredBy(j) : a.lecture_id = Requests[j]

\* C14 as claimed: each successful run adds exactly six rows, one of each type, and
\* after k successful runs for a lecture the store holds k rows of each of the six
\* types for it.
C14_KRowsPerType ==
    /\ SixRowsPerSuccessfulRun
    /\ \A l \in Lectures : \A t \in StageArtifactTypes \cup {"log"} :
          RowsOfType(l, t) = Cardinality(SuccessfulRuns(l))

\* C14 amended: each successful run adds exactly six rows, one of each type, whatever
\* earlier jobs left; after k successful runs for a lecture the store holds at least
\* k rows of each of the six types for it, and exactly k when every run started for
\* the lecture has returned normally (failed and unfinished runs add rows too).
C14_AtLeastKRowsPerType ==
    /\ SixRowsPerSuccessfulRun
    /\ \A l \in Lectures : \A t \in StageArtifactTypes \cup {"log"} :
          /\ RowsOfType(l, t) >= Cardinality(SuccessfulRuns(l))
          /\ StartedRuns(l) = SuccessfulRuns(l) =>
                RowsOfType(l, t) = Cardinality(SuccessfulRuns(l))

\* C14 witness: two runs for the same lecture have returned, and the store holds
\* two rows of each type for it.
C14_Witness ==
    \E l \in Lectures :
        /\ Cardinality(SuccessfulRuns(l)) = 2
        /\ \A t \in StageArtifactTypes \cup {"log"} : RowsOfType(l, t) = 2

-----------------------------------------------------------------------------
\* Vocabulary of the lecture store's properties.

\* Requests c and d both called get_or_create_lecture with the same source_uid.
SameUidGetOrCreate(c, d) ==
    /\ c # d
    /\ calls[c].op = "get_or_create_lecture"
    /\ calls[d].op = "get_or_create_lecture"
    /\ calls[c].lecture.source_uid = calls[d].lecture.source_uid

\* The calls that have been started.
StartedCalls == {c \in Requesters : calls[c].pc # "idle"}

\* C15: when get_or_create_lecture is called after an earlier call with the same
\* source_uid has returned, the later call does not fail and returns the lecture
\* the earlier call returned, with created = false; the store holds exactly one row
\* for that source_uid, and it is the row the earlier call returned, whatever the
\* other fields of the later call's lecture are.  An earlier call that reported
\* created = true returned the lecture it was given.
C15_SequentialGetOrCreate ==
    \A c, d \in Requesters :
        (/\ SameUidGetOrCreate(c, d)
         /\ calls[c].pc = "returned"
         /\ c \in calls[d].ended_before) =>
            /\ calls[c].created => calls[c].result = calls[c].lecture
            /\ calls[d].pc # "raised"
            /\ calls[d].pc = "returned" =>
                  /\ calls[d].result.lecture_id = calls[c].result.lecture_id
                  /\ calls[d].result = calls[c].result
                  /\ ~calls[d].created
            /\ GetLectureByUid(lectures, calls[c].lecture.source_uid) = {calls[c].result}

\* C15 witness: the first call created the lecture, a second call made after it
\* with another title and another date returned, and the stored row is the first's.
C15_Witness ==
    \E c, d \in Requesters :
        /\ SameUidGetOrCreate(c, d)
        /\ c \in calls[d].ended_before
        /\ calls[c].pc = "returned" /\ calls[c].created
        /\ calls[d].pc = "returned" /\ ~calls[d].created
        /\ calls[d].lecture.title # calls[c].lecture.title
        /\ calls[d].lecture.lecture_id # calls[c].lecture.lecture_id
        /\ calls[d].result = calls[c].lecture
        /\ lectures = {calls[c].lecture}

\* C16: in every state of the store no two lecture rows share a source_uid and no
\* two share a lecture_id.
C16_UniqueLectures ==
    \A r1, r2 \in lectures :
        r1 # r2 =>
            /\ r1.source_uid # r2.source_uid
            /\ r1.lecture_id # r2.lecture_id

\* C16 witness: two calls that overlapped inserted the same source_uid under
\* different lecture ids; one row is stored and the other call got IntegrityError.
C16_Witness ==
    \E c, d \in Requesters :
        /\ c # d
        /\ calls[c].lecture.source_uid = calls[d].lecture.source_uid
        /\ calls[c].lecture.lecture_id # calls[d].lecture.lecture_id
        /\ c \notin calls[d].ended_before /\ d \notin calls[c].ended_before
        /\ calls[c].pc = "returned" /\ calls[c].result = calls[c].lecture
        /\ calls[d].pc = "raised"
        /\ lectures = {calls[c].lecture}

\* C17: when exactly two requests have called the store, both get_or_create_lecture
\* with the same source_uid and neither after the other had ended, no call fails,
\* and once both have returned they returned the same lecture and exactly one
\* reported created = true.
C17_ConcurrentGetOrCreate ==
    \A c, d \in Requesters :
        (/\ StartedCalls = {c, d}
         /\ SameUidGetOrCreate(c, d)
         /\ c \notin calls[d].ended_before
         /\ d \notin calls[c].ended_before) =>
            /\ calls[c].pc # "raised"
            /\ calls[d].pc # "raised"
            /\ (calls[c].pc = "returned" /\ calls[d].pc = "returned") =>
                  /\ calls[c].result = calls[d].result
                  /\ calls[c].created # calls[d].created

-----------------------------------------------------------------------------
\* Vocabulary of the output routing's properties.

\* The await points at which a run resumes into a segment that calls print: the
\* start of run, the return or exception of a stage client, the registrations
\* followed by a step header, and the DONE update.
PrintingAwaits ==
    {"created", AwaitUpdate("done")}
        \cup {InClient(s) : s \in StageSet}
        \cup {AwaitArtifact(t) :
                  t \in {"audio_original_wav", "audio_vad_wav", "transcript_chunks_json"}}

\* Run j prints in this step.
PrintsInStep(j) == pc[j] \in PrintingAwaits /\ pc'[j] # pc[j]

\* Where the message that run j prints in this step arrives.  The first segment
\* prints through the TeeLogger it has just installed over its open log file.
SinksInStep(j) ==
    IF pc[j] = "created"
    THEN Sinks(j, tee_stdout', [log_file EXCEPT ![j] = "open"])
    ELSE Sinks(sys_stdout, tee_stdout, log_file)

\* C18: no message that a run prints is written into the log file of another job:
\* it arrives at the real process stdout and at the run's own log file only.
C18_LogIsolation ==
    [][\A j \in Jobs :
           PrintsInStep(j) => SinksInStep(j) \subseteq {j, RealStdout}]_vars

\* C19: every message a run prints between opening and closing its log sink is
\* written to the run's own log file and to the real process stdout, whatever other
\* runs have started or finished meanwhile.
C19_LogComplete ==
    [][\A j \in Jobs :
           PrintsInStep(j) => {j, RealStdout} \subseteq SinksInStep(j)]_vars

\* C20: once every started run has ended, sys.stdout is the stream that was
\* installed before the first run began; and sys.stdout is never a TeeLogger whose
\* log file has been closed.
C20_StdoutRestored ==
    /\ Running = {} => sys_stdout = RealStdout
    /\ sys_stdout # RealStdout => log_file[sys_stdout] = "open"

\* C21: the outcome of a run depends on its own stage clients only, not on the runs
\* before or alongside it: two ended runs whose stage clients behaved the same have
\* the same stored status, progress and error message and ended the same way, and a
\* run whose five stage clients all returned is DONE.
C21_JobsIndependent ==
    \A j, k \in Jobs :
        (Ended(j) /\ Ended(k) /\ outcome[j] = outcome[k]) =>
            /\ jobs[j].status = jobs[k].status
            /\ jobs[j].progress = jobs[k].progress
            /\ jobs[j].error_message = jobs[k].error_message
            /\ pc[j] = pc[k]
            /\ (\A s \in StageSet : outcome[j][s] = Returned) => jobs[j].status = "done"

-----------------------------------------------------------------------------
\* The chunk planner (clients/transcriber.py).  Durations are whole seconds.

\* Bound of the model: the longest total duration, in seconds.
MaxTotal == 200

\* Bound of the model: the while loop is followed for this many chunks.
MaxChunks == 8

\* The values of self.chunk_minutes and self.chunk_overlap_sec the planner is
\* called with; an overlap is a duration, so it is not negative.
ChunkMinutes == {1, 2}

ChunkOverlapSec == {0, 6, 30, 60, 90}

\* min(a, b).
Min(a, b) == IF a < b THEN a ELSE b

\* Mutant of ShortPlan: the single chunk is one chunk duration long.
ShortPlanMutant(total_duration_sec, chunk_duration_sec) ==
    << <<0, chunk_duration_sec>> >>

\* return [(0, total_duration_sec)].
ShortPlan(total_duration_sec, chunk_duration_sec) == << <<0, total_duration_sec>> >>

\* Mutant of NextStart: every chunk starts at 0 again.
NextStartRestartMutant(end, overlap_sec) == 0

\* Mutant of NextStart: the next chunk starts where the previous one ended.
NextStartNoOverlapMutant(end, overlap_sec) == end

\* Mutant of NextStart: the overlap is added instead of subtracted.
NextStartGapMutant(end, overlap_sec) == end + overlap_sec

\* start = end - overlap_sec.
NextStart(end, overlap_sec) == end - overlap_sec

\* transcribe calls self._calculate_chunk_plan(total_duration_sec).
InitChunkPlan ==
    /\ InitService
    /\ policy = NoCall
    /\ parse = NoCall
    /\ plan \in [pc : {"called"},
                 total_duration_sec : 0..MaxTotal,
                 chunk_minutes : ChunkMinutes,
                 chunk_overlap_sec : ChunkOverlapSec,
                 start : {0},
                 chunks : {<< >>}]

\* chunk_duration_sec = self.chunk_minutes * 60.
ChunkDurationSec == plan.chunk_minutes * 60

\* transcriber.py:110-119.  A total of at most one chunk duration returns the
\* single chunk; a longer one enters the while loop with start = 0.
CalculateChunkPlan ==
    /\ plan.pc = "called"
    /\ plan' = IF plan.total_duration_sec <= ChunkDurationSec
               THEN [plan EXCEPT !.pc = "returned",
                                 !.chunks = ShortPlan(plan.total_duration_sec,
                                                      ChunkDurationSec)]
               ELSE [plan EXCEPT !.pc = "while"]
    /\ UNCHANGED <<runVars, storeVars, policy, parse>>

\* transcriber.py:120-130.  One pass of the while loop: the condition, the chunk
\* appended, then the break or the next start.
ChunkPlanIteration ==
    LET end == Min(plan.start + ChunkDurationSec, plan.total_duration_sec)
        appended == Append(plan.chunks, <<plan.start, end>>)
    IN  /\ plan.pc = "while"
        /\ Len(plan.chunks) < MaxChunks
        /\ plan' = IF ~(plan.start < plan.total_duration_sec)
                   THEN [plan EXCEPT !.pc = "returned"]
                   ELSE IF end >= plan.total_duration_sec
                   THEN [plan EXCEPT !.pc = "returned", !.chunks = appended]
                   ELSE [plan EXCEPT !.chunks = appended,
                                     !.start = NextStart(end, plan.chunk_overlap_sec)]
        /\ UNCHANGED <<runVars, storeVars, policy, parse>>

NextChunkPlan == CalculateChunkPlan \/ ChunkPlanIteration

SpecChunkPlan == InitChunkPlan /\ [][NextChunkPlan]_vars

\* Vocabulary of the planner's properties.
PlanStart(i) == plan.chunks[i][1]

PlanEnd(i) == plan.chunks[i][2]

\* C22: for a total duration of at most the chunk duration the planner returns, and
\* returns exactly one chunk, (0, total).
C22_ShortInputOneChunk ==
    (plan.pc # "called" /\ plan.total_duration_sec <= ChunkDurationSec) =>
        /\ plan.pc = "returned"
        /\ plan.chunks = << <<0, plan.total_duration_sec>> >>

\* C22 witness: a total equal to the chunk duration gave one chunk; so did total 0.
C22_Witness ==
    /\ plan.pc = "returned"
    /\ plan.total_duration_sec \in {0, ChunkDurationSec}
    /\ Len(plan.chunks) = 1

\* C23: a plan that the planner returns is ordered by start, begins at 0, ends at
\* the total, and leaves no gap: every chunk after the first starts no later than
\* the chunk before it ends, so every point of [0, total) lies in a chunk.
C23_PlanCovers ==
    plan.pc = "returned" =>
        /\ Len(plan.chunks) >= 1
        /\ PlanStart(1) = 0
        /\ PlanEnd(Len(plan.chunks)) = plan.total_duration_sec
        /\ \A i \in 1..Len(plan.chunks) : PlanStart(i) <= PlanEnd(i)
        /\ \A i \in 1..(Len(plan.chunks) - 1) :
              /\ PlanStart(i) < PlanStart(i + 1)
              /\ PlanStart(i + 1) <= PlanEnd(i)
        /\ \A t \in 0..(plan.total_duration_sec - 1) :
              \E i \in 1..Len(plan.chunks) : PlanStart(i) <= t /\ t < PlanEnd(i)

\* C23 witness: a plan of three or more chunks whose last chunk is shorter than the
\* chunk duration.
C23_Witness ==
    /\ plan.pc = "returned"
    /\ Len(plan.chunks) >= 3
    /\ PlanEnd(Len(plan.chunks)) - PlanStart(Len(plan.chunks)) < ChunkDurationSec

\* C24: in a plan, every chunk after the first starts exactly overlap seconds before
\* the end of the chunk before it, and every chunk but the last is exactly one
\* chunk duration long.
C24_PlanOverlap ==
    plan.pc = "returned" =>
        \A i \in 1..(Len(plan.chunks) - 1) :
            /\ PlanStart(i + 1) = PlanEnd(i) - plan.chunk_overlap_sec
            /\ PlanEnd(i) - PlanStart(i) = ChunkDurationSec

\* C24 witness: a plan of two or more chunks with a positive overlap.
C24_Witness ==
    /\ plan.pc = "returned"
    /\ Len(plan.chunks) >= 2
    /\ plan.chunk_overlap_sec > 0
    /\ PlanStart(2) = ChunkDurationSec - plan.chunk_overlap_sec

\* ---------------------------------------------------------------------------
\* The segmentation policy of the VAD stage (clients/vad.py).  Positions are sample
\* indices; the waveform is the sequence of its sample indices, so that every
\* sample of the output can be traced to the input.
\* ---------------------------------------------------------------------------

\* Bound of the model: the longest track, in samples.
MaxSamples == 6

\* Bound of the model: the most speech intervals the detector reports.
MaxIntervals == 3

\* int(self.padding_sec * sample_rate), int(self.long_silence_sec * sample_rate)
\* and int(self.keep_silence_sec * sample_rate): every setting the constructor
\* accepts gives a number of samples that is not negative.
PaddingSamples == {0, 1}

LongSilenceSamples == {1, 2, 3}

KeepSilenceSamples == 0..MaxSamples

\* current_start is None.
NoStart == -1

\* max(a, b).
Max(a, b) == IF a > b THEN a ELSE b

\* One entry of speech_timestamps: {'start': ..., 'end': ...}.
SpeechIntervals(length) ==
    {iv \in [start : 0..length, end : 0..length] : iv.start < iv.end}

\* The lists the detector reports: ordered, non-overlapping, inside the track.
SpeechTimestamps(length) ==
    UNION {{ts \in [1..n -> SpeechIntervals(length)] :
                \A i \in 1..(n - 1) : ts[i].end <= ts[i + 1].start}
           : n \in 0..MaxIntervals}

\* The waveform: sample i of the track at position i + 1.
Waveform(length) == [i \in 1..length |-> i - 1]

\* waveform[start:end] for 0 <= start and end <= len(waveform).
Slice(waveform, start, end) == SubSeq(waveform, start + 1, end)

\* A (start, end) tuple of the segment list; kind records which append made it.
SampleRange(start, end, kind) == [start |-> start, end |-> end, kind |-> kind]

\* seg_start = max(0, segment['start'] - padding_samples).
PaddedStart(segment, padding_samples) == Max(0, segment.start - padding_samples)

\* Mutant of PaddedEnd: no padding is added after the interval.
PaddedEndMutant(segment, padding_samples, length) == Min(length, segment.end)

\* seg_end = min(len(waveform), segment['end'] + padding_samples).
PaddedEnd(segment, padding_samples, length) ==
    Min(length, segment.end + padding_samples)

\* Mutant of NoSpeech: no range is returned when no speech was detected.
NoSpeechMutant(length) == << >>

\* return [(0, len(waveform))].
NoSpeech(length) == << SampleRange(0, length, "speech") >>

\* Mutant of SmallGap: only overlapping padded intervals merge.
SmallGapMutant(gap, long_silence_samples) == gap < 0

\* if gap < long_silence_samples.
SmallGap(gap, long_silence_samples) == gap < long_silence_samples

\* The for loop of _apply_policy from entry i on, and the final append.
RECURSIVE PolicyLoop(_, _, _, _, _)
PolicyLoop(i, segments, current_start, current_end, call) ==
    IF i > Len(call.speech_timestamps)
    THEN IF current_start # NoStart
         THEN Append(segments, SampleRange(current_start, current_end, "speech"))
         ELSE segments
    ELSE LET seg_start == PaddedStart(call.speech_timestamps[i], call.padding_samples)
             seg_end == PaddedEnd(call.speech_timestamps[i], call.padding_samples,
                                  call.length)
             gap == seg_start - current_end
             silence_start == current_end
             silence_end == silence_start + call.keep_silence_samples
         IN  IF current_start = NoStart
             THEN PolicyLoop(i + 1, segments, seg_start, seg_end, call)
             ELSE IF SmallGap(gap, call.long_silence_samples)
             THEN PolicyLoop(i + 1, segments, current_start, seg_end, call)
             ELSE PolicyLoop(i + 1,
                             segments \o
                               << SampleRange(current_start, current_end, "speech"),
                                  SampleRange(silence_start, silence_end, "silence") >>,
                             seg_start, seg_end, call)

\* _apply_policy(speech_timestamps, waveform, sample_rate).
ApplyPolicySegments(call) ==
    IF call.speech_timestamps = << >>
    THEN NoSpeech(call.length)
    ELSE PolicyLoop(1, << >>, NoStart, NoStart, call)

\* _concatenate_segments: start = max(0, start); end = min(len(waveform), end).
ClampedRanges(segments, length) ==
    [k \in 1..Len(segments) |->
        SampleRange(Max(0, segments[k].start), Min(length, segments[k].end),
                    segments[k].kind)]

\* torch.cat(chunks) of the slices of the first k clamped ranges.
RECURSIVE Cat(_, _, _)
Cat(ranges, waveform, k) ==
    IF k = 0 THEN << >>
    ELSE Cat(ranges, waveform, k - 1) \o Slice(waveform, ranges[k].start, ranges[k].end)

\* _concatenate_segments(segments, waveform): no chunk returns the waveform.
ConcatenatedWaveform(segments, length) ==
    IF segments = << >>
    THEN Waveform(length)
    ELSE Cat(ClampedRanges(segments, length), Waveform(length), Len(segments))

\* process: the detector has reported speech_timestamps for waveform[0].
InitVadPolicy ==
    /\ InitService
    /\ plan = NoCall
    /\ parse = NoCall
    /\ \E length \in 0..MaxSamples :
          policy \in [pc : {"detected"},
                      length : {length},
                      speech_timestamps : SpeechTimestamps(length),
                      padding_samples : PaddingSamples,
                      long_silence_samples : LongSilenceSamples,
                      keep_silence_samples : KeepSilenceSamples,
                      segments : {<< >>},
                      ranges : {<< >>},
                      output : {<< >>}]

\* process: output_segments = self._apply_policy(...).
ApplyPolicy ==
    /\ policy.pc = "detected"
    /\ policy' = [policy EXCEPT !.pc = "applied",
                                !.segments = ApplyPolicySegments(policy)]
    /\ UNCHANGED <<runVars, storeVars, plan, parse>>

\* process: output_waveform = self._concatenate_segments(output_segments, ...).
ConcatenateSegments ==
    /\ policy.pc = "applied"
    /\ policy' = [policy EXCEPT
                    !.pc = "concatenated",
                    !.ranges = ClampedRanges(policy.segments, policy.length),
                    !.output = ConcatenatedWaveform(policy.segments, policy.length)]
    /\ UNCHANGED <<runVars, storeVars, plan, parse>>

NextVadPolicy == ApplyPolicy \/ ConcatenateSegments

SpecVadPolicy == InitVadPolicy /\ [][NextVadPolicy]_vars

\* Vocabulary of the policy's properties: the padded bounds of the i-th detected
\* interval and the gap after padding between it and the next one.
SegStart(i) == PaddedStart(policy.speech_timestamps[i], policy.padding_samples)

SegEnd(i) == PaddedEnd(policy.speech_timestamps[i], policy.padding_samples,
                       policy.length)

GapAfter(i) == SegStart(i + 1) - SegEnd(i)

ConsecutiveIntervals == 1..(Len(policy.speech_timestamps) - 1)

\* The samples of the k-th concatenated range in the final audio.
RangeLength(k) ==
    Len(Slice(Waveform(policy.length), policy.ranges[k].start, policy.ranges[k].end))

\* C25: with no detected speech interval the policy returns the single range
\* (0, track length), and the concatenated output is the whole input.
C25_NoSpeechFullInput ==
    (policy.pc # "idle" /\ policy.speech_timestamps = << >>) =>
        /\ policy.pc # "detected" =>
              /\ Len(policy.segments) = 1
              /\ policy.segments[1].start = 0
              /\ policy.segments[1].end = policy.length
        /\ policy.pc = "concatenated" => policy.output = Waveform(policy.length)

\* C25 witness: a track of some samples without speech has been concatenated.
C25_Witness ==
    /\ policy.pc = "concatenated"
    /\ policy.speech_timestamps = << >>
    /\ policy.length > 0
    /\ Len(policy.output) = policy.length

\* C26: for two consecutive intervals whose gap after padding is at least the long
\* silence threshold, the output holds the segment ending at the first, then exactly
\* one kept-silence range that starts where that segment ends, then the segment
\* starting at the second; the silence is keep_silence_samples long in the final
\* audio.
C26_LongGapKeptSilence ==
    policy.pc = "concatenated" =>
        \A i \in ConsecutiveIntervals :
            GapAfter(i) >= policy.long_silence_samples =>
                \E k \in 1..(Len(policy.segments) - 2) :
                    /\ policy.segments[k].kind = "speech"
                    /\ policy.segments[k].end = SegEnd(i)
                    /\ policy.segments[k + 1].kind = "silence"
                    /\ policy.segments[k + 1].start = policy.segments[k].end
                    /\ policy.segments[k + 2].kind = "speech"
                    /\ policy.segments[k + 2].start = SegStart(i + 1)
                    /\ RangeLength(k + 1) = policy.keep_silence_samples

\* The first and the last interval of the run of small gaps that interval i is in.
RECURSIVE RunFirst(_)
RunFirst(i) ==
    IF i > 1 /\ GapAfter(i - 1) < policy.long_silence_samples
    THEN RunFirst(i - 1)
    ELSE i

RECURSIVE RunLast(_)
RunLast(i) ==
    IF i < Len(policy.speech_timestamps) /\ GapAfter(i) < policy.long_silence_samples
    THEN RunLast(i + 1)
    ELSE i

\* C27: two consecutive intervals whose gap after padding is below the long silence
\* threshold, negative gaps included, lie in one output range, which covers the
\* first's padded start through the second's padded end and ends where the run of
\* small gaps ends; being in one range, no kept silence lies between them.
C27_ShortGapMerged ==
    policy.pc # "detected" =>
        \A i \in ConsecutiveIntervals :
            GapAfter(i) < policy.long_silence_samples =>
                /\ \E k \in 1..Len(policy.segments) :
                      /\ policy.segments[k].kind = "speech"
                      /\ policy.segments[k].start = SegStart(RunFirst(i))
                      /\ policy.segments[k].end = SegEnd(RunLast(i + 1))
                      /\ policy.segments[k].start <= SegStart(i)
                      /\ SegEnd(i + 1) <= policy.segments[k].end
                /\ ~ \E k \in 1..Len(policy.segments) :
                      /\ policy.segments[k].kind = "silence"
                      /\ policy.segments[k].start = SegEnd(i)

\* C27 witness: two intervals with a positive gap below the threshold were merged
\* into the one range the policy returned.
C27_Witness ==
    /\ policy.pc = "concatenated"
    /\ Len(policy.speech_timestamps) = 2
    /\ GapAfter(1) > 0
    /\ GapAfter(1) < policy.long_silence_samples
    /\ Len(policy.segments) = 1
    /\ policy.segments[1].start = SegStart(1)
    /\ policy.segments[1].end = SegEnd(2)

\* C28: the ranges that are concatenated are in increasing order, do not overlap
\* pairwise, and lie within [0, track length]; no input sample is emitted twice.
C28_RangesDisjointInBounds ==
    policy.pc = "concatenated" =>
        /\ \A k \in 1..Len(policy.ranges) :
              /\ 0 <= policy.ranges[k].start
              /\ policy.ranges[k].end <= policy.length
        /\ \A k \in 1..(Len(policy.ranges) - 1) :
              policy.ranges[k].end <= policy.ranges[k + 1].start
        /\ \A a, b \in 1..Len(policy.output) :
              policy.output[a] = policy.output[b] => a = b

\* ---------------------------------------------------------------------------
\* The parsing helpers (core/parsing.py).  A str is the sequence of its characters;
\* the language codes and course codes, which are only compared, are kept whole.
\* ---------------------------------------------------------------------------

\* The user choices and course codes resolve_language is called with.
UserChoices == {"no", "en", "auto", "NO", "Auto", "english", "nb", ""}

CourseCodes == {"ELE130", "MAT200", "UNKNOWN", "DAT100", "ele130", "MAT2000", ""}

\* course_defaults = {"ELE130": "no", "MAT200": "no"}.
CourseDefaults == [c \in {"ELE130", "MAT200"} |-> "no"]

\* course_defaults.get(course_code, "auto").
GetDefaultLanguageForCourse(course_code) ==
    IF course_code \in DOMAIN CourseDefaults
    THEN CourseDefaults[course_code]
    ELSE "auto"

\* Mutant of ResolveLanguage: every user choice but auto is passed through.
ResolveLanguageMutant(user_choice, course_code) ==
    IF user_choice = "auto"
    THEN GetDefaultLanguageForCourse(course_code)
    ELSE user_choice

\* resolve_language(user_choice, course_code).
ResolveLanguage(user_choice, course_code) ==
    IF user_choice \in {"no", "en"}
    THEN user_choice
    ELSE IF user_choice = "auto"
    THEN GetDefaultLanguageForCourse(course_code)
    ELSE "auto"

\* An Optional[str]: None, or a str.
NoneStr == [some |-> FALSE, str |-> << >>]

Str(s) == [some |-> TRUE, str |-> s]

\* The truth value of an Optional[str]: None and "" are false.
Truthy(opt) == opt.some /\ opt.str # << >>

\* The character class [a-f0-9\-] under re.IGNORECASE.
HexDigits ==
    << "0", "1", "2", "3", "4", "5", "6", "7", "8", "9", "a", "b", "c", "d", "e", "f" >>

IdChars ==
    {HexDigits[i] : i \in 1..16} \cup {"A", "B", "C", "D", "E", "F", "-"}

\* The length of the path token, {36}.
PathIdLength == 36

\* The length of a SHA-1 hex digest.
DigestLength == 40

\* The URLs generate_source_uid is called with.
\* "https://p.no/V.aspx?id=abc123-def456": an id= query parameter.
UrlQueryId ==
    << "h", "t", "t", "p", "s", ":", "/", "/", "p", ".", "n", "o", "/", "V",
       ".", "a", "s", "p", "x", "?", "i", "d", "=", "a", "b", "c", "1", "2",
       "3", "-", "d", "e", "f", "4", "5", "6" >>

\* "https://p.no/V?x=1&ID=AB-9z": an upper-case ID= parameter after &, the value ending at a non-hex character.
UrlQueryIdUpper ==
    << "h", "t", "t", "p", "s", ":", "/", "/", "p", ".", "n", "o", "/", "V",
       "?", "x", "=", "1", "&", "I", "D", "=", "A", "B", "-", "9", "z" >>

\* "https://p.no/s/3f2a9c1e-7b4d-4e8a-9f10-a1b2c3d4e5f6/v": a 36-character token between slashes.
UrlPathId ==
    << "h", "t", "t", "p", "s", ":", "/", "/", "p", ".", "n", "o", "/", "s",
       "/", "3", "f", "2", "a", "9", "c", "1", "e", "-", "7", "b", "4", "d",
       "-", "4", "e", "8", "a", "-", "9", "f", "1", "0", "-", "a", "1", "b",
       "2", "c", "3", "d", "4", "e", "5", "f", "6", "/", "v" >>

\* "https://p.no/s/3f2a9c1e-7b4d-4e8a-9f10-a1b2c3d4e5f6/v?id=ff01": a path token and a query parameter.
UrlBothIds ==
    << "h", "t", "t", "p", "s", ":", "/", "/", "p", ".", "n", "o", "/", "s",
       "/", "3", "f", "2", "a", "9", "c", "1", "e", "-", "7", "b", "4", "d",
       "-", "4", "e", "8", "a", "-", "9", "f", "1", "0", "-", "a", "1", "b",
       "2", "c", "3", "d", "4", "e", "5", "f", "6", "/", "v", "?", "i", "d",
       "=", "f", "f", "0", "1" >>

\* "https://p.no/s/3f2a9c1e-7b4d-4e8a-9f10-a1b2c3d4e5f/v": a 35-character token between slashes.
UrlShortPathToken ==
    << "h", "t", "t", "p", "s", ":", "/", "/", "p", ".", "n", "o", "/", "s",
       "/", "3", "f", "2", "a", "9", "c", "1", "e", "-", "7", "b", "4", "d",
       "-", "4", "e", "8", "a", "-", "9", "f", "1", "0", "-", "a", "1", "b",
       "2", "c", "3", "d", "4", "e", "5", "f", "/", "v" >>

\* "https://example.com/video": no id.
UrlNoId ==
    << "h", "t", "t", "p", "s", ":", "/", "/", "e", "x", "a", "m", "p", "l",
       "e", ".", "c", "o", "m", "/", "v", "i", "d", "e", "o" >>

\* "https://p.no/V?id=xyz": an id= parameter whose value has no hex character.
UrlNoHexValue ==
    << "h", "t", "t", "p", "s", ":", "/", "/", "p", ".", "n", "o", "/", "V",
       "?", "i", "d", "=", "x", "y", "z" >>

\* "https://example.com/videos": no id, one character longer than UrlNoId.
UrlNoIdOther ==
    << "h", "t", "t", "p", "s", ":", "/", "/", "e", "x", "a", "m", "p", "l",
       "e", ".", "c", "o", "m", "/", "v", "i", "d", "e", "o", "s" >>

Urls ==
    {UrlQueryId, UrlQueryIdUpper, UrlPathId, UrlBothIds,
     UrlShortPathToken, UrlNoId, UrlNoHexValue, UrlNoIdOther, << >>}

\* The metadata ids it is called with: None, "", and two ids.
MetadataIds ==
    {NoneStr, Str(<< >>), Str(<< "m", "e", "t", "a", "-", "1" >>), Str(<< "a", "b", "1", "2" >>)}

\* [?&]id=([a-f0-9\-]+) matches at position i of the url.
QueryIdAt(url, i) ==
    /\ i + 4 <= Len(url)
    /\ url[i] \in {"?", "&"}
    /\ url[i + 1] \in {"i", "I"}
    /\ url[i + 2] \in {"d", "D"}
    /\ url[i + 3] = "="
    /\ url[i + 4] \in IdChars

\* The last position of the longest run of id characters that starts at j.
RECURSIVE RunEnd(_, _)
RunEnd(url, j) ==
    IF j + 1 <= Len(url) /\ url[j + 1] \in IdChars
    THEN RunEnd(url, j + 1)
    ELSE j

\* /([a-f0-9\-]{36})/ matches at position i of the url.
PathIdAt(url, i) ==
    /\ i + PathIdLength + 1 <= Len(url)
    /\ url[i] = "/"
    /\ \A k \in 1..PathIdLength : url[i + k] \in IdChars
    /\ url[i + PathIdLength + 1] = "/"

\* re.search: the leftmost position where the pattern matches.
Leftmost(positions) == CHOOSE i \in positions : \A j \in positions : i <= j

\* group(1) of the first pattern; the empty sequence stands for no match.
QueryId(url) ==
    LET positions == {i \in 1..Len(url) : QueryIdAt(url, i)}
    IN  IF positions = {}
        THEN << >>
        ELSE SubSeq(url, Leftmost(positions) + 4, RunEnd(url, Leftmost(positions) + 4))

\* group(1) of the second pattern; the empty sequence stands for no match.
PathId(url) ==
    LET positions == {i \in 1..Len(url) : PathIdAt(url, i)}
    IN  IF positions = {}
        THEN << >>
        ELSE SubSeq(url, Leftmost(positions) + 1, Leftmost(positions) + PathIdLength)

\* extract_panopto_id(url): the query parameter, else the path token, else None.
ExtractPanoptoId(url) ==
    IF QueryId(url) # << >> THEN Str(QueryId(url))
    ELSE IF PathId(url) # << >> THEN Str(PathId(url))
    ELSE NoneStr

\* The position of a character in the alphabet of the URLs, 0 when it is not there.
Alphabet ==
    HexDigits \o
    << "g", "h", "i", "l", "m", "n", "o", "p", "s", "t", "v", "x", "y", "z",
       "A", "B", "D", "I", "V", ":", "/", ".", "?", "&", "=", "-" >>

CharCode(c) ==
    IF \E i \in 1..Len(Alphabet) : Alphabet[i] = c
    THEN CHOOSE i \in 1..Len(Alphabet) : Alphabet[i] = c
    ELSE 0

\* Digit k mixed with the first i characters of the url: k plus the sum over the
\* positions j of a weight of the character at j and of j.  The sum is counted as the
\* size of a set, so that its evaluation does not nest with the length of the url.
Mix(url, k, i) ==
    LET weight(j) == ((CharCode(url[j]) + 1) * (j + k)) % 16
    IN  k + Cardinality({p \in (1..i) \X (1..15) : p[2] <= weight(p[1])})

\* hashlib.sha1(url.encode('utf-8')).hexdigest(): a function of the url that gives
\* DigestLength lower-case hex digits.  The digest itself is hashlib's; the model
\* keeps that it is computed from the characters of the url alone.
Sha1Hexdigest(url) ==
    [k \in 1..DigestLength |-> HexDigits[(Mix(url, k, Len(url)) % 16) + 1]]

\* Mutant of GenerateSourceUid: the id embedded in the URL is tried first.
GenerateSourceUidMutant(url, metadata_id) ==
    IF Truthy(ExtractPanoptoId(url)) THEN ExtractPanoptoId(url).str
    ELSE IF Truthy(metadata_id) THEN metadata_id.str
    ELSE Sha1Hexdigest(url)

\* generate_source_uid(url, metadata_id).
GenerateSourceUid(url, metadata_id) ==
    IF Truthy(metadata_id) THEN metadata_id.str
    ELSE IF Truthy(ExtractPanoptoId(url)) THEN ExtractPanoptoId(url).str
    ELSE Sha1Hexdigest(url)

\* A call of resolve_language or of generate_source_uid with its arguments.
InitParsing ==
    /\ InitService
    /\ plan = NoCall
    /\ policy = NoCall
    /\ \/ parse \in [pc : {"called"},
                     fn : {"resolve_language"},
                     user_choice : UserChoices,
                     course_code : CourseCodes,
                     result : {Null}]
       \/ parse \in [pc : {"called"},
                     fn : {"generate_source_uid"},
                     url : Urls,
                     metadata_id : MetadataIds,
                     result : {<< >>},
                     again : {<< >>}]

\* resolve_language returns.
ResolveLanguageReturns ==
    /\ parse.pc = "called"
    /\ parse.fn = "resolve_language"
    /\ parse' = [parse EXCEPT
                   !.pc = "returned",
                   !.result = ResolveLanguage(parse.user_choice, parse.course_code)]
    /\ UNCHANGED <<runVars, storeVars, plan, policy>>

\* generate_source_uid returns.
GenerateSourceUidReturns ==
    /\ parse.pc = "called"
    /\ parse.fn = "generate_source_uid"
    /\ parse' = [parse EXCEPT
                   !.pc = "returned",
                   !.result = GenerateSourceUid(parse.url, parse.metadata_id)]
    /\ UNCHANGED <<runVars, storeVars, plan, policy>>

\* generate_source_uid is called a second time with the same arguments.
GenerateSourceUidAgain ==
    /\ parse.pc = "returned"
    /\ parse.fn = "generate_source_uid"
    /\ parse' = [parse EXCEPT
                   !.pc = "returned again",
                   !.again = GenerateSourceUid(parse.url, parse.metadata_id)]
    /\ UNCHANGED <<runVars, storeVars, plan, policy>>

NextParsing ==
    \/ ResolveLanguageReturns
    \/ GenerateSourceUidReturns
    \/ GenerateSourceUidAgain

SpecParsing == InitParsing /\ [][NextParsing]_vars

\* The call of the named function has returned.
FunctionReturned(fn) == parse.pc \in {"returned", "returned again"} /\ parse.fn = fn

\* C29: resolve_language returns no, en or auto; the choices no and en come back
\* unchanged whatever the course; the choice auto gives no for ELE130 and MAT200 and
\* auto for every other course; every other choice gives auto.
C29_ResolveLanguage ==
    FunctionReturned("resolve_language") =>
        /\ parse.result \in {"no", "en", "auto"}
        /\ parse.user_choice \in {"no", "en"} => parse.result = parse.user_choice
        /\ parse.user_choice = "auto" =>
              parse.result = IF parse.course_code \in {"ELE130", "MAT200"}
                             THEN "no"
                             ELSE "auto"
        /\ parse.user_choice \notin {"no", "en", "auto"} => parse.result = "auto"

\* C29 witness: the choice auto resolved to no for MAT200.
C29_Witness ==
    /\ FunctionReturned("resolve_language")
    /\ parse.user_choice = "auto"
    /\ parse.course_code = "MAT200"
    /\ parse.result = "no"

\* C30: generate_source_uid returns a non-empty metadata id as it is; without one,
\* the id of the URL's id= query parameter, else the URL's 36-character path token;
\* without either, the SHA-1 hex digest of the URL, 40 lower-case hex characters;
\* a second call with the same arguments returns the same value.
C30_SourceUidPriority ==
    FunctionReturned("generate_source_uid") =>
        /\ Truthy(parse.metadata_id) => parse.result = parse.metadata_id.str
        /\ (~Truthy(parse.metadata_id) /\ QueryId(parse.url) # << >>) =>
              parse.result = QueryId(parse.url)
        /\ (~Truthy(parse.metadata_id) /\ QueryId(parse.url) = << >>
              /\ PathId(parse.url) # << >>) =>
              parse.result = PathId(parse.url)
        /\ (~Truthy(parse.metadata_id) /\ QueryId(parse.url) = << >>
              /\ PathId(parse.url) = << >>) =>
              /\ parse.result = Sha1Hexdigest(parse.url)
              /\ Len(parse.result) = 40
              /\ \A k \in 1..Len(parse.result) :
                    \E d \in 1..16 : parse.result[k] = HexDigits[d]
        /\ parse.pc = "returned again" => parse.again = parse.result

\* C30 witness: without a metadata id, a URL with a path token and a query parameter
\* gave the query parameter's id, twice.
C30_Witness ==
    /\ FunctionReturned("generate_source_uid")
    /\ parse.pc = "returned again"
    /\ ~Truthy(parse.metadata_id)
    /\ parse.url = UrlBothIds
    /\ parse.result = << "f", "f", "0", "1" >>
    /\ parse.again = parse.result

\* ---------------------------------------------------------------------------
\* A request under the real clients (factory._create_real_pipeline): the metadata
\* extractor and the downloader both need the credential file and both start
\* yt-dlp as a subprocess.  SpecReal follows one request from POST /jobs to the end
\* of its run, while the credential file is put in place and removed around it.
\* ---------------------------------------------------------------------------

\* The request that is followed.
RealRequests == {1}

\* settings.cookies_path.
CookiesPath == "cookies.txt"

\* str() of the FileNotFoundError of metadata.py:30 and downloader.py:26.
CookiesNotFound == "cookies.txt not found"

\* The subprocess.run calls of metadata.py:37 and downloader.py:42.
YtdlpDumpJson == "subprocess yt-dlp --dump-json"

YtdlpDownload == "subprocess yt-dlp -f worstaudio/worst"

ExternalTools == {YtdlpDumpJson, YtdlpDownload}

\* What request j has called and started so far.
InvokedBy(j) == {invoked[j][i] : i \in 1..Len(invoked[j])}

\* The exception create_job's handler turns into HTTPException(500, str(e)).
RequestError(type, m) == [type |-> type, stage |-> "extract_metadata", msg |-> m]

\* The operator installs the credential file.
CookiesInstalled ==
    /\ CookiesPath \notin files
    /\ files' = files \cup {CookiesPath}
    /\ UNCHANGED <<storeVars, funVars>>
    /\ UNCHANGED <<pc, jobs, artifacts, sys_stdout, original_stdout, tee_stdout,
                   log_file, exc, invoked, outcome>>

\* The credential file is removed.
CookiesRemoved ==
    /\ CookiesPath \in files
    /\ files' = files \ {CookiesPath}
    /\ UNCHANGED <<storeVars, funVars>>
    /\ UNCHANGED <<pc, jobs, artifacts, sys_stdout, original_stdout, tee_stdout,
                   log_file, exc, invoked, outcome>>

\* main.py:101 with metadata.py:29-49.  create_job awaits extract_metadata: without
\* the credential file FileNotFoundError reaches create_job's handler, which
\* answers 500; with it yt-dlp --dump-json is started.
ExtractMetadata(j) ==
    /\ pc[j] = "absent"
    /\ IF CookiesPath \notin files
       THEN /\ pc' = [pc EXCEPT ![j] = "http_500"]
            /\ exc' = [exc EXCEPT ![j] = RequestError("FileNotFoundError", CookiesNotFound)]
            /\ UNCHANGED invoked
       ELSE /\ pc' = [pc EXCEPT ![j] = "in_extract_metadata"]
            /\ invoked' = [invoked EXCEPT ![j] = Append(@, YtdlpDumpJson)]
            /\ UNCHANGED exc
    /\ UNCHANGED <<storeVars, funVars>>
    /\ UNCHANGED <<jobs, artifacts, files, sys_stdout, original_stdout, tee_stdout,
                   log_file, outcome>>

\* metadata.py:82-93 with main.py:146-147.  yt-dlp fails, times out or prints no
\* JSON: RuntimeError, answered 500.
ExtractMetadataRaises(j, m) ==
    /\ pc[j] = "in_extract_metadata"
    /\ pc' = [pc EXCEPT ![j] = "http_500"]
    /\ exc' = [exc EXCEPT ![j] = RequestError("RuntimeError", m)]
    /\ UNCHANGED <<storeVars, funVars>>
    /\ UNCHANGED <<jobs, artifacts, files, sys_stdout, original_stdout, tee_stdout,
                   log_file, invoked, outcome>>

\* metadata.py:51-80 with main.py:104-139.  The metadata is returned; create_job
\* inserts the QUEUED job and schedules the run.
ExtractMetadataReturns(j) ==
    /\ pc[j] = "in_extract_metadata"
    /\ jobs' = jobs @@ (j :> NewJobRow(Requests[j]))
    /\ pc' = [pc EXCEPT ![j] = "created"]
    /\ UNCHANGED <<storeVars, funVars>>
    /\ UNCHANGED <<artifacts, files, sys_stdout, original_stdout, tee_stdout,
                   log_file, exc, invoked, outcome>>

\* downloader.py:25-29.  YtdlpDownloader.download without the credential file:
\* FileNotFoundError before yt-dlp is started.
YtdlpDownloadNoCookies(j) ==
    /\ CookiesPath \notin files
    /\ YtdlpDownload \notin InvokedBy(j)
    /\ ClientRaises(j, "download", CookiesNotFound)

\* downloader.py:31-55.  With the credential file yt-dlp is started.
YtdlpDownloadStarts(j) ==
    /\ pc[j] = InClient("download")
    /\ CookiesPath \in files
    /\ YtdlpDownload \notin InvokedBy(j)
    /\ invoked' = [invoked EXCEPT ![j] = Append(@, YtdlpDownload)]
    /\ UNCHANGED <<storeVars, funVars>>
    /\ UNCHANGED <<pc, jobs, artifacts, files, sys_stdout, original_stdout,
                   tee_stdout, log_file, exc, outcome>>

\* downloader.py:57-62.
YtdlpDownloadReturns(j) ==
    /\ YtdlpDownload \in InvokedBy(j)
    /\ DownloadReturns(j)

\* downloader.py:59-71.
YtdlpDownloadRaises(j, m) ==
    /\ YtdlpDownload \in InvokedBy(j)
    /\ DownloadRaises(j, m)

\* PipelineRunner.run with YtdlpDownloader as its downloader.
RunReal(j) ==
    \/ StartRun(j)
    \/ UpdateDownloading(j)
    \/ YtdlpDownloadNoCookies(j)
    \/ YtdlpDownloadStarts(j)
    \/ YtdlpDownloadReturns(j)
    \/ \E m \in Msgs : YtdlpDownloadRaises(j, m)
    \/ UpdateConverting(j)
    \/ ConvertReturns(j)
    \/ \E m \in Msgs : ConvertRaises(j, m)
    \/ RegisterAudioOriginal(j)
    \/ UpdateVad(j)
    \/ ProcessReturns(j)
    \/ \E m \in Msgs : ProcessRaises(j, m)
    \/ RegisterAudioVad(j)
    \/ UpdateTranscribing(j)
    \/ TranscribeReturns(j)
    \/ \E m \in Msgs : TranscribeRaises(j, m)
    \/ RegisterRawTranscript(j)
    \/ RegisterTranscriptChunks(j)
    \/ UpdateSummarizing(j)
    \/ SummarizeReturns(j)
    \/ \E m \in Msgs : SummarizeRaises(j, m)
    \/ RegisterSummary(j)
    \/ UpdateDone(j)
    \/ UpdateError(j)
    \/ RegisterLog(j)

NextReal ==
    \/ CookiesInstalled
    \/ CookiesRemoved
    \/ \E j \in RealRequests : ExtractMetadata(j)
    \/ \E j \in RealRequests : \E m \in Msgs : ExtractMetadataRaises(j, m)
    \/ \E j \in RealRequests : ExtractMetadataReturns(j)
    \/ \E j \in RealRequests : RunReal(j)

SpecReal == Init /\ [][NextReal]_vars

\* Request j has ended on the missing credential file: answered 500, or its run has
\* raised to its caller with the downloader's FileNotFoundError.
EndedOnMissingCookies(j) ==
    /\ pc[j] \in {"http_500", "raised"}
    /\ exc[j].msg = CookiesNotFound

\* The ERROR state shape of a job: status, message, finish time and a LOG artifact.
ErrorShape(j) ==
    /\ j \in DOMAIN jobs
    /\ jobs[j].status = "error"
    /\ jobs[j].error_message # Null
    /\ jobs[j].finished_at # Null
    /\ LogArtifactsBy(j) # {}

\* C31: a request that ends on the missing credential file leaves a job in the
\* ERROR state shape; no stage status was recorded for it (the progress written
\* with QUEUED, 0, is still there, and the ERROR update does not write progress);
\* and what it called last was not an external tool.
C31_MissingPrerequisiteFailsFast ==
    \A j \in RealRequests :
        EndedOnMissingCookies(j) =>
            /\ ErrorShape(j)
            /\ jobs[j].progress = 0
            /\ invoked[j] # << >> => invoked[j][Len(invoked[j])] \notin ExternalTools

\* ---------------------------------------------------------------------------
\* Further properties of the runs (Spec).
\* ---------------------------------------------------------------------------

\* Run j has reached the stage sequence: it is at the DOWNLOADING update or past it.
ReachedStages(j) ==
    \/ pc[j] = AwaitUpdate("download")
    \/ invoked[j] # << >>

\* C32: source_url.txt is in the lecture directory of every run that has reached the
\* stage sequence: it is there before the DOWNLOADING update and before any stage
\* client is called, and stays there when the first stage fails.
C32_SourceUrlWritten ==
    \A j \in DOMAIN jobs :
        (ReachedStages(j) \/ jobs[j].status \notin {"queued", "error"}) =>
            InDir(j, {"source_url.txt"}) \subseteq files

\* C32 witness: the run of the only job of its lecture has ended on a failed download,
\* and source_url.txt is in its directory.
C32_Witness ==
    \E j \in DOMAIN jobs :
        /\ \A i \in DOMAIN jobs : i # j => jobs[i].lecture_id # jobs[j].lecture_id
        /\ outcome[j]["download"].result = "raised"
        /\ pc[j] = "raised"
        /\ InDir(j, {"source_url.txt"}) \subseteq files

\* The progress, in tenths, of the checkpoint of the stage that failed.
FailedStageCheckpoint(stage) ==
    CASE stage = "download" -> 1
      [] stage = "convert_to_wav" -> 2
      [] stage = "process" -> 3
      [] stage = "transcribe" -> 4
      [] stage = "summarize" -> 7

\* C33: the step that stores ERROR leaves the job's progress as it was, so a job in
\* ERROR after a stage failed carries that stage's checkpoint (0.1, 0.2, 0.3, 0.4,
\* 0.7); no step lowers a job's progress, and the progress stays within [0, 1].
C33_ErrorKeepsProgress ==
    [][\A j \in DOMAIN jobs' :
          /\ jobs'[j].progress \in 0..10
          /\ j \in DOMAIN jobs =>
                /\ jobs'[j].progress >= jobs[j].progress
                /\ (jobs'[j].status = "error" /\ jobs[j].status # "error") =>
                      jobs'[j].progress = jobs[j].progress
          /\ \A s \in StageSet :
                (jobs'[j].status = "error" /\ outcome'[j][s].result = "raised") =>
                    jobs'[j].progress = FailedStageCheckpoint(s)]_vars

\* C33 witness: a job is in ERROR after its transcribe stage failed, with progress 0.4.
C33_Witness ==
    \E j \in DOMAIN jobs :
        /\ jobs[j].status = "error"
        /\ outcome[j]["transcribe"].result = "raised"
        /\ jobs[j].progress = 4

\* The artifact types a run has registered when it ends on the failure of a stage.
TypesAfterFailure(stage) ==
    CASE stage = "download" -> {"log"}
      [] stage = "convert_to_wav" -> {"log"}
      [] stage = "process" -> {"audio_original_wav", "log"}
      [] stage = "transcribe" -> {"audio_original_wav", "audio_vad_wav", "log"}
      [] stage = "summarize" ->
            {"audio_original_wav", "audio_vad_wav", "raw_transcript_txt",
             "transcript_chunks_json", "log"}

\* C34: a run that has ended after stage k failed has registered one record of each
\* artifact type of the stages completed before k and one LOG, and nothing else:
\* no artifact of the failed stage or of a later stage; until it ends it has
\* registered no more than those.
C34_ArtifactsAfterFailure ==
    \A j \in Jobs : \A s \in StageSet :
        outcome[j][s].result = "raised" =>
            /\ TypesBy(j) \subseteq TypesAfterFailure(s)
            /\ Cardinality(RegisteredBy(j)) = Cardinality(TypesBy(j))
            /\ Ended(j) => TypesBy(j) = TypesAfterFailure(s)

\* C34 witness: a run has ended on a failed summarize stage with five records.
C34_Witness ==
    \E j \in Jobs :
        /\ Ended(j)
        /\ outcome[j]["summarize"].result = "raised"
        /\ Cardinality(RegisteredBy(j)) = 5

\* The event loop runs every task that can run: a run that is not waiting for the
\* model's cap takes its next step, and every stage-client call returns or raises.
SpecLive == Spec /\ \A j \in Jobs : WF_vars(Run(j))

\* C35: every job whose run was started eventually has stored status DONE or ERROR.
C35_RunsTerminate ==
    \A j \in Jobs :
        (pc[j] \notin {"absent", "created"}) ~>
            (j \in DOMAIN jobs /\ jobs[j].status \in {"done", "error"})

\* ---------------------------------------------------------------------------
\* Further properties of the chunk planner.
\* ---------------------------------------------------------------------------

\* The planner's call runs on: each pass of the while loop is followed by the next.
SpecChunkPlanLive == SpecChunkPlan /\ WF_vars(NextChunkPlan)

\* The call is of a total longer than one chunk with 0 <= overlap < chunk duration.
LongInputSmallOverlap ==
    /\ plan.pc # "idle"
    /\ plan.total_duration_sec > ChunkDurationSec
    /\ 0 <= plan.chunk_overlap_sec
    /\ plan.chunk_overlap_sec < ChunkDurationSec

\* n chunks reach the total: chunkDuration + (n - 1) * (chunkDuration - overlap).
ChunksReach(n) ==
    ChunkDurationSec + (n - 1) * (ChunkDurationSec - plan.chunk_overlap_sec)
        >= plan.total_duration_sec

\* C36: a call with a total longer than one chunk and 0 <= overlap < chunk duration
\* returns; in the plan it returns every chunk starts after the chunk before it, and
\* the number of chunks is the smallest n whose n chunks reach the total.
C36_PlannerTerminates ==
    (plan.pc = "called" /\ LongInputSmallOverlap) ~>
        /\ plan.pc = "returned"
        /\ \A i \in 1..(Len(plan.chunks) - 1) : PlanStart(i) < PlanStart(i + 1)
        /\ ChunksReach(Len(plan.chunks))
        /\ \A n \in 1..(Len(plan.chunks) - 1) : ~ChunksReach(n)

\* C36 witness: a plan of four or more chunks with a positive overlap was returned.
C36_Witness ==
    /\ plan.pc = "returned"
    /\ LongInputSmallOverlap
    /\ plan.chunk_overlap_sec > 0
    /\ Len(plan.chunks) >= 4
    /\ ChunksReach(Len(plan.chunks))

\* ---------------------------------------------------------------------------
\* Further properties of the segmentation policy.
\* ---------------------------------------------------------------------------

\* The output ranges made of detected speech.
SpeechRanges == {k \in 1..Len(policy.segments) : policy.segments[k].kind = "speech"}

\* Output range k holds raw interval i with its padding, clamped to the track.
HoldsInterval(k, i) ==
    LET raw == policy.speech_timestamps[i]
        from == IF raw.start - policy.padding_samples < 0
                THEN 0
                ELSE raw.start - policy.padding_samples
        to == IF raw.end + policy.padding_samples > policy.length
              THEN policy.length
              ELSE raw.end + policy.padding_samples
    IN  /\ k \in SpeechRanges
        /\ policy.segments[k].start <= from
        /\ to <= policy.segments[k].end

\* C37: every raw speech interval, with its padding clamped to the track, lies within
\* one output range of the policy; the ranges come in the time order of the input:
\* starts do not go back, each speech range ends before the next one starts, and an
\* interval's range is not after the range of a later interval.
C37_SpeechKept ==
    (policy.pc \in {"applied", "concatenated"} /\ policy.speech_timestamps # << >>) =>
        /\ \A i \in 1..Len(policy.speech_timestamps) :
              \E k \in SpeechRanges : HoldsInterval(k, i)
        /\ \A k \in 1..(Len(policy.segments) - 1) :
              policy.segments[k].start <= policy.segments[k + 1].start
        /\ \A k, l \in SpeechRanges :
              k < l => policy.segments[k].end <= policy.segments[l].start
        /\ \A i \in ConsecutiveIntervals : \A k, l \in SpeechRanges :
              (HoldsInterval(k, i) /\ HoldsInterval(l, i + 1)) => k <= l

\* C37 witness: three padded intervals were kept in two speech ranges around one
\* kept silence.
C37_Witness ==
    /\ policy.pc = "applied"
    /\ Len(policy.speech_timestamps) = 3
    /\ policy.padding_samples > 0
    /\ Len(policy.segments) = 3
    /\ \A i \in 1..3 : \E k \in SpeechRanges : HoldsInterval(k, i)

\* ---------------------------------------------------------------------------
\* VoxtralTranscriber.transcribe (clients/transcriber.py): the chunk plan, then one
\* awaited _transcribe_chunk call per window.  The call is kept in `plan`, next to
\* the planner's state: records is the local list chunks, parts is transcript_parts.
\* ---------------------------------------------------------------------------

\* The total durations, languages and chunk texts of the calls that are followed.
TranscribeTotals == {0, 59, 60, 61, 150, MaxTotal}

TranscribeLanguages == {"no", "auto"}

ChunkTexts == {"", "hei"}

\* The call has not returned a value.
NoTranscript == [raw_transcript |-> Null, chunks |-> << >>]

\* sep.join(parts).
RECURSIVE Join(_, _)
Join(sep, parts) ==
    IF parts = << >> THEN ""
    ELSE IF Len(parts) = 1 THEN parts[1]
    ELSE parts[1] \o sep \o Join(sep, Tail(parts))

\* detected_language = language if language != "auto" else "no".
DetectedLanguage(language) == IF language # "auto" THEN language ELSE "no"

\* The dict appended for window number i (counted from 0) of the plan.
ChunkRecord(i, window, text, language) ==
    [i |-> i, start_sec |-> window[1], end_sec |-> window[2], text |-> text,
     detected_language |-> DetectedLanguage(language)]

\* transcribe(audio_path, language) is called on an audio of some total duration.
InitTranscribe ==
    /\ InitService
    /\ policy = NoCall
    /\ parse = NoCall
    /\ plan \in [pc : {"called"},
                 total_duration_sec : TranscribeTotals,
                 chunk_minutes : ChunkMinutes,
                 chunk_overlap_sec : ChunkOverlapSec,
                 start : {0},
                 chunks : {<< >>},
                 language : TranscribeLanguages,
                 records : {<< >>},
                 parts : {<< >>},
                 result : {NoTranscript}]

\* The window the for loop is at: the plan is there and not every window is done.
AtWindow == plan.pc = "returned" /\ Len(plan.records) < Len(plan.chunks)

\* Mutant of TranscribeChunkRaises: the failure is swallowed and what was
\* transcribed so far is returned.
TranscribeChunkRaisesMutant ==
    /\ AtWindow
    /\ plan' = [plan EXCEPT
                  !.pc = "raised",
                  !.result = [raw_transcript |-> Join("\n\n", plan.parts),
                              chunks |-> plan.records]]
    /\ UNCHANGED <<runVars, storeVars, policy, parse>>

\* transcriber.py:72-94.  _transcribe_chunk returns (text, detected_lang) for the
\* window: its record and its text are appended.
TranscribeChunkReturns(text) ==
    /\ AtWindow
    /\ plan' = [plan EXCEPT
                  !.records = Append(@, ChunkRecord(Len(plan.records),
                                                    plan.chunks[Len(plan.records) + 1],
                                                    text, plan.language)),
                  !.parts = Append(@, text)]
    /\ UNCHANGED <<runVars, storeVars, policy, parse>>

\* transcriber.py:81 with 192-193.  _transcribe_chunk raises RuntimeError, which
\* transcribe does not catch.
TranscribeChunkRaises ==
    /\ AtWindow
    /\ plan' = [plan EXCEPT !.pc = "raised"]
    /\ UNCHANGED <<runVars, storeVars, policy, parse>>

\* transcriber.py:96-99.  return "\n\n".join(transcript_parts), chunks.
TranscribeJoins ==
    /\ plan.pc = "returned"
    /\ Len(plan.records) = Len(plan.chunks)
    /\ plan' = [plan EXCEPT
                  !.pc = "transcribed",
                  !.result = [raw_transcript |-> Join("\n\n", plan.parts),
                              chunks |-> plan.records]]
    /\ UNCHANGED <<runVars, storeVars, policy, parse>>

NextTranscribe ==
    \/ CalculateChunkPlan
    \/ ChunkPlanIteration
    \/ \E text \in ChunkTexts : TranscribeChunkReturns(text)
    \/ TranscribeChunkRaises
    \/ TranscribeJoins

SpecTranscribe == InitTranscribe /\ [][NextTranscribe]_vars

\* The texts of the returned records, in index order.
ReturnedTexts == [k \in 1..Len(plan.result.chunks) |-> plan.result.chunks[k].text]

\* C38: the records transcribe returns are one per planned window and in the plan's
\* order: record number k, counted from 0, has i = k and window k's start_sec and
\* end_sec; the full text is the records' texts joined in index order; a call in
\* which a window's transcription failed has returned nothing.
C38_TranscribeReassembly ==
    /\ plan.pc = "transcribed" =>
          /\ Len(plan.result.chunks) = Len(plan.chunks)
          /\ \A k \in 1..Len(plan.result.chunks) :
                /\ plan.result.chunks[k].i = k - 1
                /\ plan.result.chunks[k].start_sec = PlanStart(k)
                /\ plan.result.chunks[k].end_sec = PlanEnd(k)
          /\ plan.result.raw_transcript = Join("\n\n", ReturnedTexts)
    /\ plan.pc = "raised" => plan.result = NoTranscript

\* C38 witness: three windows were transcribed and joined, the middle one empty.
C38_Witness ==
    /\ plan.pc = "transcribed"
    /\ Len(plan.result.chunks) = 3
    /\ plan.result.chunks[3].i = 2
    /\ plan.result.chunks[3].end_sec = plan.total_duration_sec
    /\ plan.result.raw_transcript = "hei\n\n\n\nhei"

-----------------------------------------------------------------------------
\* Further properties of the lecture store (SpecStore).

\* Call c overlapped no other call: each other started call had ended when c
\* started, or started after c had ended.
Sequential(c) ==
    \A d \in StartedCalls \ {c} :
        c \in calls[d].ended_before \/ d \in calls[c].ended_before

\* No other call has brought the source_uid of call c to the store.
OnlySource(c) ==
    \A d \in StartedCalls \ {c} :
        calls[d].lecture.source_uid # calls[c].lecture.source_uid

\* C39: a get_or_create_lecture call whose source_uid no other call has brought to
\* the store, and which overlaps no other call, does not fail, and once returned it
\* reports created = true and returns its own lecture, which is stored, whatever
\* the lectures stored before; two calls with distinct source_uid carry distinct
\* lecture_ids and distinct working directories, also when course code, date and
\* the first ShortUidLength characters of source_uid are shared.
C39_DistinctSourcesNeverCollide ==
    /\ \A c \in StartedCalls :
          (/\ calls[c].op = "get_or_create_lecture"
           /\ Sequential(c)
           /\ OnlySource(c)) =>
              /\ calls[c].pc # "raised"
              /\ calls[c].pc = "returned" =>
                    /\ calls[c].created
                    /\ calls[c].result = calls[c].lecture
                    /\ calls[c].lecture \in lectures
    /\ \A c, d \in StartedCalls :
          calls[c].lecture.source_uid # calls[d].lecture.source_uid =>
              /\ calls[c].lecture.lecture_id # calls[d].lecture.lecture_id
              /\ LectureDir(calls[c].lecture.lecture_id)
                     # LectureDir(calls[d].lecture.lecture_id)

\* ---------------------------------------------------------------------------
\* The constructors of SileroVadProcessor (clients/vad.py) and VoxtralTranscriber
\* (clients/transcriber.py), and the first reads of what they set.  The call is kept
\* in `parse`.  Durations given in seconds as floats are counted in hundredths of a
\* second; api_key and the Mistral client are left out.
\* ---------------------------------------------------------------------------

\* A parameter that was not passed (its default, None).
Omitted == -1

\* self.sample_rate.
SampleRate == 16000

VadParams == {"long_silence_sec", "keep_silence_sec", "padding_sec"}

TranscriberParams == {"chunk_minutes", "chunk_overlap_sec"}

\* What a caller passes for a duration of the VAD processor, and for chunk_minutes
\* and chunk_overlap_sec of the transcriber.
VadArgs == {Omitted, 0, 10, 50}

ChunkMinutesArgs == {Omitted, 0, 1, 2}

ChunkOverlapArgs == {Omitted, 0, 30}

\* The defaults of Settings.
DefaultSettings ==
    [long_silence_sec |-> 160, keep_silence_sec |-> 35, padding_sec |-> 20,
     chunk_minutes |-> 15, chunk_overlap_sec |-> 6]

\* settings: the defaults, or values read from the environment.
ConfiguredSettings ==
    {DefaultSettings,
     [DefaultSettings EXCEPT !.padding_sec = 0, !.chunk_minutes = 2,
                             !.chunk_overlap_sec = 0]}

\* The total durations of the audio the constructed transcriber is called on.
ConstructedTotals == {0, 61, 150, MaxTotal}

\* Python's `a or b` on an optional number: b when a is None or 0.
PyOr(a, b) == IF a = Omitted \/ a = 0 THEN b ELSE a

\* int(seconds * sample_rate), for a duration counted in hundredths of a second.
Samples(hundredths, sample_rate) == (hundredths * sample_rate) \div 100

\* A constructor is called: with or without torch, under some settings, with each
\* parameter passed or omitted.
InitConstruct ==
    /\ InitService
    /\ plan = NoCall
    /\ policy = NoCall
    /\ \/ parse \in [pc : {"new"},
                     class : {"SileroVadProcessor"},
                     TORCH_AVAILABLE : BOOLEAN,
                     settings : ConfiguredSettings,
                     args : [VadParams -> VadArgs],
                     self : {[p \in VadParams |-> Omitted]}]
       \/ parse \in [pc : {"new"},
                     class : {"VoxtralTranscriber"},
                     TORCH_AVAILABLE : BOOLEAN,
                     settings : ConfiguredSettings,
                     args : {a \in [TranscriberParams -> ChunkMinutesArgs \cup ChunkOverlapArgs] :
                                /\ a["chunk_minutes"] \in ChunkMinutesArgs
                                /\ a["chunk_overlap_sec"] \in ChunkOverlapArgs},
                     self : {[p \in TranscriberParams |-> Omitted]}]

\* vad.py:33-37 and transcriber.py:32-36.  Without torch the constructor raises
\* ImportError.
ConstructorRaises ==
    /\ parse.pc = "new"
    /\ ~parse.TORCH_AVAILABLE
    /\ parse' = [parse EXCEPT !.pc = "raised"]
    /\ UNCHANGED <<runVars, storeVars, plan, policy>>

\* vad.py:38-40.  self.x = x or settings.x for the three durations.
SileroVadProcessorInit ==
    /\ parse.pc = "new"
    /\ parse.class = "SileroVadProcessor"
    /\ parse.TORCH_AVAILABLE
    /\ parse' = [parse EXCEPT
                   !.pc = "constructed",
                   !.self = [p \in VadParams |-> PyOr(parse.args[p], parse.settings[p])]]
    /\ UNCHANGED <<runVars, storeVars, plan, policy>>

\* transcriber.py:39-40.  self.x = x or settings.x for chunk_minutes and
\* chunk_overlap_sec.
VoxtralTranscriberInit ==
    /\ parse.pc = "new"
    /\ parse.class = "VoxtralTranscriber"
    /\ parse.TORCH_AVAILABLE
    /\ parse' = [parse EXCEPT
                   !.pc = "constructed",
                   !.self = [p \in TranscriberParams |->
                                PyOr(parse.args[p], parse.settings[p])]]
    /\ UNCHANGED <<runVars, storeVars, plan, policy>>

\* vad.py:126-128.  _apply_policy of the constructed processor converts its three
\* durations to samples.
ApplyPolicyReads ==
    /\ parse.pc = "constructed"
    /\ parse.class = "SileroVadProcessor"
    /\ policy = NoCall
    /\ policy' = [pc |-> "read",
                  padding_samples |-> Samples(parse.self["padding_sec"], SampleRate),
                  long_silence_samples |->
                      Samples(parse.self["long_silence_sec"], SampleRate),
                  keep_silence_samples |->
                      Samples(parse.self["keep_silence_sec"], SampleRate)]
    /\ UNCHANGED <<runVars, storeVars, plan, parse>>

\* transcriber.py:66.  transcribe of the constructed transcriber calls
\* _calculate_chunk_plan, which reads self.chunk_minutes and self.chunk_overlap_sec
\* (110-111).
TranscribeCalls(total) ==
    /\ parse.pc = "constructed"
    /\ parse.class = "VoxtralTranscriber"
    /\ plan = NoCall
    /\ plan' = [pc |-> "called",
                total_duration_sec |-> total,
                chunk_minutes |-> parse.self["chunk_minutes"],
                chunk_overlap_sec |-> parse.self["chunk_overlap_sec"],
                start |-> 0,
                chunks |-> << >>]
    /\ UNCHANGED <<runVars, storeVars, policy, parse>>

NextConstruct ==
    \/ ConstructorRaises
    \/ SileroVadProcessorInit
    \/ VoxtralTranscriberInit
    \/ ApplyPolicyReads
    \/ \E total \in ConstructedTotals : TranscribeCalls(total)
    \/ CalculateChunkPlan
    \/ ChunkPlanIteration

SpecConstruct == InitConstruct /\ [][NextConstruct]_vars

\* What parameter p of the constructor call stands for: the value passed, or the
\* configured default when it was omitted.
PassedOrDefault(p) ==
    IF parse.args[p] # Omitted THEN parse.args[p] ELSE parse.settings[p]

\* C40: a constructed SileroVadProcessor or VoxtralTranscriber holds, for each of
\* its parameters, the value that was passed, 0 included, and the configured default
\* only when the parameter was omitted; the policy's sample counts and the planner's
\* chunk duration and overlap are computed from those values.
C40_ExplicitOverridesDefault ==
    /\ parse.pc = "constructed" =>
          \A p \in DOMAIN parse.args : parse.self[p] = PassedOrDefault(p)
    /\ policy # NoCall =>
          /\ policy.padding_samples = Samples(PassedOrDefault("padding_sec"), SampleRate)
          /\ policy.long_silence_samples =
                 Samples(PassedOrDefault("long_silence_sec"), SampleRate)
          /\ policy.keep_silence_samples =
                 Samples(PassedOrDefault("keep_silence_sec"), SampleRate)
    /\ plan # NoCall =>
          /\ plan.chunk_minutes = PassedOrDefault("chunk_minutes")
          /\ plan.chunk_overlap_sec = PassedOrDefault("chunk_overlap_sec")
====
